---- MODULE Spec2Model ----
(***************************************************************************)
(* Dashboard grid engine of inkdo/rift: coordinate codec, geometry         *)
(* validator, JSON normalization layer and layout migration.               *)
(*                                                                         *)
(* Strings that the code inspects character by character (column letters)  *)
(* are sequences of UTF-16 code units; all other strings are TLA+ strings. *)
(* A call that throws is a result record with ok = FALSE and the message.  *)
(***************************************************************************)
EXTENDS Integers, Sequences, FiniteSets, TLC

VARIABLES
    cpc,      \* codec driver: position of the calling test
    cIn,      \* codec driver: the input handed to the codec
    cMid,     \* codec driver: result of the first call
    cOut      \* codec driver: result of the second call

VARIABLES
    positions,  \* heap of GridPosition records: reference -> {column, row}
    sizes,      \* heap of GridSize records: reference -> {width, height}
    doc,        \* the dashboard the caller holds and passes in
    ret,        \* the dashboard the last call returned
    pc,         \* caller: "idle", "returned" (a call returned), "mutated"
    clock,      \* the current time, read by new Date()
    snapshot    \* the values of doc before the call and when it returned

VARIABLES
    dpc,      \* document driver: which call has been made
    dData,    \* document driver: the value handed in (any JavaScript value)
    dText,    \* document driver: the JSON text produced by a serializer
    dOut      \* document driver: what the last call returned or threw

codecVars == <<cpc, cIn, cMid, cOut>>

docVars == <<dpc, dData, dText, dOut>>

layoutVars == <<positions, sizes, doc, ret, pc, clock, snapshot>>

vars == <<codecVars, layoutVars, docVars>>

----------------------------------------------------------------------------
(* Results of calls that may throw *)

Ok(v) == [ok |-> TRUE, value |-> v]

Err(msg) == [ok |-> FALSE, error |-> msg]

None == [ok |-> FALSE, error |-> "not called"]

----------------------------------------------------------------------------
(* Bounds of the codec inputs *)

MaxIndex == 702

MaxLetters == 3

MaxPosColumn == 28

MaxPosRow == 3

\* code units offered to letterToIndex: A B Z a z 1 @ [
Alphabet == {65, 66, 90, 97, 122, 49, 64, 91}

MaxChars == 4

\* code units offered to parseCoordinate: A Z a 0 1 9 and the space
CoordinateAlphabet == {65, 90, 97, 48, 49, 57, 32}

----------------------------------------------------------------------------
(* Coordinate codec: src/artifacts/dashboard/utils.ts                      *)

\* the while loop of indexToLetter
RECURSIVE indexToLetterLoop(_, _)
indexToLetterLoop(index, result) ==
    IF index >= 0
    THEN indexToLetterLoop((index \div 26) - 1, <<65 + (index % 26)>> \o result)
    ELSE result

indexToLetter(index) ==
    IF index < 0
    THEN Err("Column index must be non-negative")
    ELSE Ok(indexToLetterLoop(index, <<>>))

\* String.prototype.toUpperCase on the code units of Alphabet (ASCII)
toUpperCase(s) == [i \in DOMAIN s |-> IF s[i] \in 97..122 THEN s[i] - 32 ELSE s[i]]

letterStepWrongOffset(result, charCode) == result * 26 + (charCode - 65)

\* result = result * 26 + (charCode - 64)
letterStep(result, charCode) == result * 26 + (charCode - 64)

\* the for loop of letterToIndex, i counted from 1
RECURSIVE letterToIndexLoop(_, _, _)
letterToIndexLoop(upperLetter, i, result) ==
    IF i > Len(upperLetter)
    THEN Ok(result - 1)
    ELSE LET charCode == upperLetter[i]
         IN  IF charCode < 65 \/ charCode > 90
             THEN Err("Letter must contain only alphabetic characters")
             ELSE letterToIndexLoop(upperLetter, i + 1, letterStep(result, charCode))

letterToIndex(letter) ==
    IF letter = <<>>
    THEN Err("Letter must be a non-empty string")
    ELSE letterToIndexLoop(toUpperCase(letter), 1, 0)

positionRowKept(position) == position.row

\* row: position.row + 1
coordinateRow(position) == position.row + 1

positionToCoordinate(position) ==
    LET column == indexToLetter(position.column)
    IN  IF column.ok
        THEN Ok([column |-> column.value, row |-> coordinateRow(position)])
        ELSE column

coordinateToPosition(coordinate) ==
    LET column == letterToIndex(coordinate.column)
    IN  IF column.ok
        THEN Ok([column |-> column.value, row |-> coordinate.row - 1])
        ELSE column

\* number of leading code units of s, from position i on, that lie in lo..hi
RECURSIVE runLength(_, _, _, _)
runLength(s, i, lo, hi) ==
    IF i <= Len(s) /\ s[i] >= lo /\ s[i] <= hi
    THEN 1 + runLength(s, i + 1, lo, hi)
    ELSE 0

\* coordinateString.match(/^([A-Z]+)(\d+)$/): the groups, or null
matchCoordinate(s) ==
    LET letters == runLength(s, 1, 65, 90)
        digits  == runLength(s, letters + 1, 48, 57)
    IN  IF letters >= 1 /\ digits >= 1 /\ letters + digits = Len(s)
        THEN [matched |-> TRUE,
              column  |-> SubSeq(s, 1, letters),
              rowStr  |-> SubSeq(s, letters + 1, Len(s))]
        ELSE [matched |-> FALSE]

\* parseInt(rowStr, 10) on a string of decimal digits
RECURSIVE parseInt(_)
parseInt(rowStr) ==
    IF rowStr = <<>>
    THEN 0
    ELSE parseInt(SubSeq(rowStr, 1, Len(rowStr) - 1)) * 10 + (rowStr[Len(rowStr)] - 48)

parseCoordinate(coordinateString) ==
    IF coordinateString = <<>>
    THEN Err("Coordinate string must be a non-empty string")
    ELSE LET match == matchCoordinate(coordinateString)
         IN  IF ~match.matched
             THEN Err("Invalid coordinate format. Expected format: A1, B2, etc.")
             ELSE LET row == parseInt(match.rowStr)
                  IN  IF row < 1
                      THEN Err("Row number must be greater than 0")
                      ELSE Ok([column |-> match.column, row |-> row])

----------------------------------------------------------------------------
(* Values outside the part a specification exercises *)

CodecIdle ==
    /\ cpc = "off"
    /\ cIn = [kind |-> "none"]
    /\ cMid = None
    /\ cOut = None

LayoutIdle ==
    /\ positions = <<>>
    /\ sizes = <<>>
    /\ doc = [version |-> "none"]
    /\ ret = None
    /\ pc = "off"
    /\ clock = 0
    /\ snapshot = None

DocIdle ==
    /\ dpc = "off"
    /\ dData = [t |-> "undefined"]
    /\ dText = None
    /\ dOut = None

----------------------------------------------------------------------------
(* Codec driver: the calls of utils.test.ts on inputs from bounded sets    *)

CodecInit ==
    /\ cpc = "start"
    /\ \/ \E index \in -1..MaxIndex : cIn = [kind |-> "index", index |-> index]
       \/ \E n \in 0..MaxLetters : \E letter \in [1..n -> Alphabet] :
              cIn = [kind |-> "letter", letter |-> letter]
       \/ \E column \in 0..MaxPosColumn, row \in 0..MaxPosRow :
              cIn = [kind |-> "position", position |-> [column |-> column, row |-> row]]
       \/ \E n \in 0..MaxChars : \E text \in [1..n -> CoordinateAlphabet] :
              cIn = [kind |-> "text", text |-> text]
    /\ cMid = None
    /\ cOut = None
    /\ LayoutIdle
    /\ DocIdle

\* indexToLetter(n)
EncodeIndex ==
    /\ cpc = "start"
    /\ cIn.kind = "index"
    /\ cMid' = indexToLetter(cIn.index)
    /\ cpc' = "encoded"
    /\ UNCHANGED <<cIn, cOut, layoutVars, docVars>>

\* letterToIndex(indexToLetter(n))
DecodeEncoded ==
    /\ cpc = "encoded"
    /\ cMid.ok
    /\ cOut' = letterToIndex(cMid.value)
    /\ cpc' = "done"
    /\ UNCHANGED <<cIn, cMid, layoutVars, docVars>>

\* letterToIndex(s)
DecodeLetter ==
    /\ cpc = "start"
    /\ cIn.kind = "letter"
    /\ cMid' = letterToIndex(cIn.letter)
    /\ cpc' = "decoded"
    /\ UNCHANGED <<cIn, cOut, layoutVars, docVars>>

\* indexToLetter(letterToIndex(s))
EncodeDecoded ==
    /\ cpc = "decoded"
    /\ cMid.ok
    /\ cOut' = indexToLetter(cMid.value)
    /\ cpc' = "done"
    /\ UNCHANGED <<cIn, cMid, layoutVars, docVars>>

\* positionToCoordinate(p)
PositionToCoordinateCall ==
    /\ cpc = "start"
    /\ cIn.kind = "position"
    /\ cMid' = positionToCoordinate(cIn.position)
    /\ cpc' = "coordinate"
    /\ UNCHANGED <<cIn, cOut, layoutVars, docVars>>

\* coordinateToPosition(positionToCoordinate(p))
CoordinateToPositionCall ==
    /\ cpc = "coordinate"
    /\ cMid.ok
    /\ cOut' = coordinateToPosition(cMid.value)
    /\ cpc' = "done"
    /\ UNCHANGED <<cIn, cMid, layoutVars, docVars>>

\* parseCoordinate(s)
ParseCoordinateCall ==
    /\ cpc = "start"
    /\ cIn.kind = "text"
    /\ cMid' = parseCoordinate(cIn.text)
    /\ cpc' = "parsed"
    /\ UNCHANGED <<cIn, cOut, layoutVars, docVars>>

CodecNext ==
    \/ ParseCoordinateCall
    \/ EncodeIndex
    \/ DecodeEncoded
    \/ DecodeLetter
    \/ EncodeDecoded
    \/ PositionToCoordinateCall
    \/ CoordinateToPositionCall

SpecCodec == CodecInit /\ [][CodecNext]_vars

----------------------------------------------------------------------------
(* Claims about the coordinate codec *)

IsLetterUnit(c) == c \in 65..90 \/ c \in 97..122

\* C9: letterToIndex(indexToLetter(n)) = n for every n >= 0, with the spot
\* values A, Z, AA, ZZ, AAA at 0, 25, 26, 701, 702; letterToIndex fails on the
\* empty string and on a string with a character that is no letter A-Z in
\* either case, and indexToLetter maps a decoded index back to the upper-cased
\* letters.
C9_CodecInverse ==
    /\ (cpc = "encoded" /\ cIn.index >= 0) =>
           /\ cMid.ok
           /\ (cIn.index = 0 => cMid.value = <<65>>)
           /\ (cIn.index = 25 => cMid.value = <<90>>)
           /\ (cIn.index = 26 => cMid.value = <<65, 65>>)
           /\ (cIn.index = 701 => cMid.value = <<90, 90>>)
           /\ (cIn.index = 702 => cMid.value = <<65, 65, 65>>)
    /\ (cpc = "done" /\ cIn.kind = "index") =>
           (cOut.ok /\ cOut.value = cIn.index)
    /\ (cpc = "decoded") =>
           (cMid.ok <=>
               (cIn.letter # <<>> /\ \A i \in DOMAIN cIn.letter : IsLetterUnit(cIn.letter[i])))
    /\ (cpc = "done" /\ cIn.kind = "letter") =>
           /\ cOut.ok
           /\ Len(cOut.value) = Len(cIn.letter)
           /\ \A i \in DOMAIN cIn.letter :
                  cOut.value[i] = IF cIn.letter[i] >= 97 THEN cIn.letter[i] - 32 ELSE cIn.letter[i]

C9_Witness ==
    /\ cpc = "done"
    /\ cIn.kind = "index"
    /\ cIn.index = 702
    /\ cMid.ok
    /\ cMid.value = <<65, 65, 65>>
    /\ cOut.ok
    /\ cOut.value = 702

\* C10: coordinateToPosition(positionToCoordinate(p)) = p for every position
\* with column >= 0 and row >= 0; the coordinate has the column letters of
\* indexToLetter and row + 1, so column 0 / row 0 is ("A", 1).
C10_PositionRoundTrip ==
    /\ (cpc = "coordinate") =>
           /\ cMid.ok
           /\ cMid.value.row = cIn.position.row + 1
           /\ cMid.value.column = indexToLetter(cIn.position.column).value
           /\ (cIn.position = [column |-> 0, row |-> 0] =>
                   cMid.value = [column |-> <<65>>, row |-> 1])
    /\ (cpc = "done" /\ cIn.kind = "position") =>
           (cOut.ok /\ cOut.value = cIn.position)

C10_Witness ==
    /\ cpc = "done"
    /\ cIn.kind = "position"
    /\ cIn.position = [column |-> 27, row |-> 2]
    /\ cMid.ok
    /\ cMid.value = [column |-> <<65, 66>>, row |-> 3]
    /\ cOut.ok
    /\ cOut.value = cIn.position

\* s is letters A-Z followed by a decimal number without leading zero:
\* ^[A-Z]+[1-9][0-9]*$, with k the number of letters
MatchesCoordinatePattern(s, k) ==
    /\ k >= 1
    /\ k < Len(s)
    /\ \A i \in 1..k : s[i] \in 65..90
    /\ s[k + 1] \in 49..57
    /\ \A i \in (k + 2)..Len(s) : s[i] \in 48..57

\* the number a string of decimal digits d[from..Len(d)] denotes
RECURSIVE DecimalValue(_, _)
DecimalValue(d, from) ==
    IF from > Len(d)
    THEN 0
    ELSE (d[from] - 48) * 10 ^ (Len(d) - from) + DecimalValue(d, from + 1)

\* C11: parseCoordinate(s) succeeds if and only if s is one or more letters
\* A-Z followed by a decimal row number with no leading zero and value >= 1
\* (^[A-Z]+[1-9][0-9]*$), so it fails on "A01" and on "A0"; on success it
\* returns the letters as column and the number as row.
C11_ParseCoordinatePattern ==
    cpc = "parsed" =>
        /\ cMid.ok <=> \E k \in 1..Len(cIn.text) : MatchesCoordinatePattern(cIn.text, k)
        /\ cMid.ok =>
               \E k \in 1..Len(cIn.text) :
                   /\ cMid.value.column = SubSeq(cIn.text, 1, k)
                   /\ cMid.value.row = DecimalValue(cIn.text, k + 1)

----------------------------------------------------------------------------
(* Layout migration: src/lib/dashboard/serialization.ts, lines 284-416     *)
(*                                                                         *)
(* position and size are JavaScript objects: a widget holds references to  *)
(* them, and a write through one reference is seen through every other.    *)

MinDim == 1

MaxDim == 12

MinCell == 100

MaxCell == 500

MinWidgetSize == 1

MaxWidgetSize == 6

Max(a, b) == IF a >= b THEN a ELSE b

Min(a, b) == IF a <= b THEN a ELSE b

\* { ...widget }: a new widget object whose position and size are the SAME references
spreadWidget(widget) == widget

adjustWidgetFromOldPosition(widget, layout, ph, sh) ==
    LET rp == widget.position
        rs == widget.size
        ph1 == IF ph[rp].column >= layout.columns
               THEN [ph EXCEPT ![rp].column = Max(0, layout.columns - sh[rs].width)]
               ELSE ph
        ph2 == IF ph[rp].row >= layout.rows
               THEN [ph1 EXCEPT ![rp].row = Max(0, layout.rows - sh[rs].height)]
               ELSE ph1
        sh1 == IF ph[rp].column + sh[rs].width > layout.columns
               THEN [sh EXCEPT ![rs].width = Max(1, layout.columns - ph[rp].column)]
               ELSE sh
        sh2 == IF ph[rp].row + sh[rs].height > layout.rows
               THEN [sh1 EXCEPT ![rs].height = Max(1, layout.rows - ph[rp].row)]
               ELSE sh1
        sh3 == [sh2 EXCEPT ![rs].width = Max(1, Min(6, sh2[rs].width))]
        sh4 == [sh3 EXCEPT ![rs].height = Max(1, Min(6, sh3[rs].height))]
    IN  [widget |-> widget, positions |-> ph2, sizes |-> sh4]

adjustWidgetUnclamped(widget, layout, ph, sh) ==
    LET rp == widget.position
        rs == widget.size
        ph1 == IF ph[rp].column >= layout.columns
               THEN [ph EXCEPT ![rp].column = Max(0, layout.columns - sh[rs].width)]
               ELSE ph
        ph2 == IF ph1[rp].row >= layout.rows
               THEN [ph1 EXCEPT ![rp].row = Max(0, layout.rows - sh[rs].height)]
               ELSE ph1
        sh1 == IF ph2[rp].column + sh[rs].width > layout.columns
               THEN [sh EXCEPT ![rs].width = Max(1, layout.columns - ph2[rp].column)]
               ELSE sh
        sh2 == IF ph2[rp].row + sh1[rs].height > layout.rows
               THEN [sh1 EXCEPT ![rs].height = Max(1, layout.rows - ph2[rp].row)]
               ELSE sh1
    IN  [widget |-> widget, positions |-> ph2, sizes |-> sh2]

\* one iteration of the map callback of adjustWidgetsToLayout, on the heaps
\* ph (positions) and sh (sizes); reads go through widget, writes through
\* adjustedWidget, statement by statement
adjustWidget(widget, layout, ph, sh) ==
    LET adjustedWidget == spreadWidget(widget)
        rp == widget.position
        rs == widget.size
        wp == adjustedWidget.position
        ws == adjustedWidget.size
        ph1 == IF ph[rp].column >= layout.columns
               THEN [ph EXCEPT ![wp].column = Max(0, layout.columns - sh[rs].width)]
               ELSE ph
        ph2 == IF ph1[rp].row >= layout.rows
               THEN [ph1 EXCEPT ![wp].row = Max(0, layout.rows - sh[rs].height)]
               ELSE ph1
        sh1 == IF ph2[rp].column + sh[rs].width > layout.columns
               THEN [sh EXCEPT ![ws].width = Max(1, layout.columns - ph2[rp].column)]
               ELSE sh
        sh2 == IF ph2[rp].row + sh1[rs].height > layout.rows
               THEN [sh1 EXCEPT ![ws].height = Max(1, layout.rows - ph2[rp].row)]
               ELSE sh1
        sh3 == [sh2 EXCEPT ![ws].width =
                   Max(MinWidgetSize, Min(MaxWidgetSize, sh2[ws].width))]
        sh4 == [sh3 EXCEPT ![ws].height =
                   Max(MinWidgetSize, Min(MaxWidgetSize, sh3[ws].height))]
    IN  [widget |-> adjustedWidget, positions |-> ph2, sizes |-> sh4]

RECURSIVE adjustWidgetsDroppingOutside(_, _, _, _, _, _)
adjustWidgetsDroppingOutside(widgets, i, layout, ph, sh, done) ==
    IF i > Len(widgets)
    THEN [widgets |-> done, positions |-> ph, sizes |-> sh]
    ELSE IF \/ ph[widgets[i].position].column >= layout.columns
            \/ ph[widgets[i].position].row >= layout.rows
    THEN adjustWidgetsDroppingOutside(widgets, i + 1, layout, ph, sh, done)
    ELSE LET one == adjustWidget(widgets[i], layout, ph, sh)
         IN  adjustWidgetsDroppingOutside(widgets, i + 1, layout, one.positions,
                                          one.sizes, Append(done, one.widget))

\* widgets.map(...): the callback applied to the widgets from index i on
RECURSIVE adjustWidgetsFrom(_, _, _, _, _, _)
adjustWidgetsFrom(widgets, i, layout, ph, sh, done) ==
    IF i > Len(widgets)
    THEN [widgets |-> done, positions |-> ph, sizes |-> sh]
    ELSE LET one == adjustWidget(widgets[i], layout, ph, sh)
         IN  adjustWidgetsFrom(widgets, i + 1, layout, one.positions, one.sizes,
                               Append(done, one.widget))

adjustWidgetsLeftInPlace(widgets, layout, ph, sh) ==
    [widgets |-> widgets, positions |-> ph, sizes |-> sh]

adjustWidgetsToLayout(widgets, layout, ph, sh) ==
    adjustWidgetsFrom(widgets, 1, layout, ph, sh, <<>>)

validatedLayoutNoFloor(newLayout) ==
    [columns |-> Min(12, newLayout.columns),
     rows |-> Min(12, newLayout.rows),
     cellSize |-> [width |-> Min(500, newLayout.cellSize.width),
                   height |-> Min(500, newLayout.cellSize.height)]]

\* const validatedLayout = { columns: Math.max(1, Math.min(12, ...)), ... }
validatedLayoutOf(newLayout) ==
    [columns |-> Max(MinDim, Min(MaxDim, newLayout.columns)),
     rows |-> Max(MinDim, Min(MaxDim, newLayout.rows)),
     cellSize |-> [width |-> Max(MinCell, Min(MaxCell, newLayout.cellSize.width)),
                   height |-> Max(MinCell, Min(MaxCell, newLayout.cellSize.height))]]

updateDashboardLayoutRestamped(dashboard, newLayout, now, ph, sh) ==
    LET validatedLayout == validatedLayoutOf(newLayout)
        adjusted == adjustWidgetsToLayout(dashboard.widgets, validatedLayout, ph, sh)
    IN  [dashboard |-> [dashboard EXCEPT
                           !.layout = validatedLayout,
                           !.widgets = adjusted.widgets,
                           !.metadata = [dashboard.metadata EXCEPT
                                            !.createdAt = now, !.lastModified = now]],
         positions |-> adjusted.positions,
         sizes |-> adjusted.sizes]

\* returns the new dashboard and the heaps as the call leaves them
updateDashboardLayout(dashboard, newLayout, now, ph, sh) ==
    LET validatedLayout == validatedLayoutOf(newLayout)
        adjusted == adjustWidgetsToLayout(dashboard.widgets, validatedLayout, ph, sh)
    IN  [dashboard |-> [dashboard EXCEPT
                           !.layout = validatedLayout,
                           !.widgets = adjusted.widgets,
                           !.metadata = [dashboard.metadata EXCEPT !.lastModified = now]],
         positions |-> adjusted.positions,
         sizes |-> adjusted.sizes]

\* changes.key ?? current; changes holds the keys the caller gave
givenOr(changes, key, current) ==
    IF key \in DOMAIN changes THEN changes[key] ELSE current

\* builds the layout from the changes and the current layout, then migrates
updateLayoutDimensions(dashboard, changes, now, ph, sh) ==
    LET currentLayout == dashboard.layout
        newLayout ==
            [columns |-> givenOr(changes, "columns", currentLayout.columns),
             rows |-> givenOr(changes, "rows", currentLayout.rows),
             cellSize |->
                 [width |-> givenOr(changes, "cellWidth", currentLayout.cellSize.width),
                  height |-> givenOr(changes, "cellHeight",
                                     currentLayout.cellSize.height)]]
    IN  updateDashboardLayout(dashboard, newLayout, now, ph, sh)

affectedClassByFootprint(widget, newLayout, ph, sh) ==
    LET widgetEndCol == ph[widget.position].column + sh[widget.size].width
        widgetEndRow == ph[widget.position].row + sh[widget.size].height
    IN  IF widgetEndCol > newLayout.columns \/ widgetEndRow > newLayout.rows
        THEN IF widgetEndCol - 1 >= newLayout.columns \/ widgetEndRow - 1 >= newLayout.rows
             THEN "removed"
             ELSE "affected"
        ELSE "unaffected"

\* the branch of getAffectedWidgets a widget takes
affectedClass(widget, newLayout, ph, sh) ==
    LET widgetEndCol == ph[widget.position].column + sh[widget.size].width
        widgetEndRow == ph[widget.position].row + sh[widget.size].height
    IN  IF \/ ph[widget.position].column >= newLayout.columns
           \/ ph[widget.position].row >= newLayout.rows
           \/ widgetEndCol > newLayout.columns
           \/ widgetEndRow > newLayout.rows
        THEN IF \/ ph[widget.position].column >= newLayout.columns
                \/ ph[widget.position].row >= newLayout.rows
             THEN "removed"
             ELSE "affected"
        ELSE "unaffected"

\* widgets.forEach(...) of getAffectedWidgets from index i on; lists holds the
\* three arrays unaffected, affected, removed
RECURSIVE getAffectedWidgetsFrom(_, _, _, _, _, _)
getAffectedWidgetsFrom(widgets, i, newLayout, ph, sh, lists) ==
    IF i > Len(widgets)
    THEN lists
    ELSE LET class == affectedClass(widgets[i], newLayout, ph, sh)
         IN  getAffectedWidgetsFrom(widgets, i + 1, newLayout, ph, sh,
                                    [lists EXCEPT ![class] = Append(@, widgets[i])])

getAffectedWidgets(widgets, currentLayout, newLayout, ph, sh) ==
    getAffectedWidgetsFrom(widgets, 1, newLayout, ph, sh,
                           [unaffected |-> <<>>, affected |-> <<>>, removed |-> <<>>])

Directions == {"add-column", "remove-column", "add-row", "remove-row"}

resizedLayoutByTwo(currentLayout, direction) ==
    CASE direction = "add-column" ->
             [currentLayout EXCEPT !.columns = Min(12, currentLayout.columns + 2)]
      [] direction = "remove-column" ->
             [currentLayout EXCEPT !.columns = Max(1, currentLayout.columns - 2)]
      [] direction = "add-row" ->
             [currentLayout EXCEPT !.rows = Min(12, currentLayout.rows + 2)]
      [] direction = "remove-row" ->
             [currentLayout EXCEPT !.rows = Max(1, currentLayout.rows - 2)]

\* the switch of resizeGrid
resizedLayout(currentLayout, direction) ==
    CASE direction = "add-column" ->
             [currentLayout EXCEPT !.columns = Min(MaxDim, currentLayout.columns + 1)]
      [] direction = "remove-column" ->
             [currentLayout EXCEPT !.columns = Max(MinDim, currentLayout.columns - 1)]
      [] direction = "add-row" ->
             [currentLayout EXCEPT !.rows = Min(MaxDim, currentLayout.rows + 1)]
      [] direction = "remove-row" ->
             [currentLayout EXCEPT !.rows = Max(MinDim, currentLayout.rows - 1)]

resizeGridLayoutOnly(dashboard, direction, now, ph, sh) ==
    [dashboard |-> [dashboard EXCEPT
                       !.layout = validatedLayoutOf(resizedLayout(dashboard.layout,
                                                                  direction)),
                       !.metadata = [dashboard.metadata EXCEPT !.lastModified = now]],
     positions |-> ph,
     sizes |-> sh]

resizeGrid(dashboard, direction, now, ph, sh) ==
    updateDashboardLayout(dashboard, resizedLayout(dashboard.layout, direction), now, ph, sh)

----------------------------------------------------------------------------
(* Caller of the layout migration: holds a dashboard, calls                *)
(* updateDashboardLayout, resizeGrid or updateLayoutDimensions on it, may  *)
(* write to the dashboard it got back, and may go on with that dashboard.  *)

MaxWidgets == 2

MaxCoord == 3

MaxSize == 2

MaxCalls == 2

DefaultColumns == 4

DefaultRows == 4

DefaultCellWidth == 200

DefaultCellHeight == 150

\* createDefaultDashboard: the 4x4 layout with 200x150 cells
defaultLayout ==
    [columns |-> DefaultColumns, rows |-> DefaultRows,
     cellSize |-> [width |-> DefaultCellWidth, height |-> DefaultCellHeight]]

WidgetIds == <<"w1", "w2", "w3", "w4">>

\* widget values of the documents the caller starts with; rows and heights
\* take the two ends of their range
InitColumns == 0..MaxCoord

InitRows == {0, MaxCoord}

InitWidths == (1..MaxSize) \cup {MaxWidgetSize + 1}

InitHeights == {1, MaxSize}

\* layouts proposed to updateDashboardLayout, in and out of range
ProposedDims == {0, 2, MaxDim + 1}

ProposedCells ==
    {[width |-> DefaultCellWidth, height |-> DefaultCellHeight],
     [width |-> MinCell - 1, height |-> MaxCell + 1]}

\* changes of some dimensions: fewer columns, and fewer rows with a cell
\* height above the range
DimensionChanges ==
    {[columns |-> 2], [rows |-> 2, cellHeight |-> MaxCell + 1]}

ProposedLayouts == [columns : ProposedDims, rows : ProposedDims, cellSize : ProposedCells]

\* the values behind the references of a dashboard
derefWidget(w, ph, sh) ==
    [w EXCEPT !.position = ph[w.position], !.size = sh[w.size]]

deref(dashboard, ph, sh) ==
    [version |-> dashboard.version,
     layout |-> dashboard.layout,
     widgets |-> [i \in DOMAIN dashboard.widgets |-> derefWidget(dashboard.widgets[i], ph, sh)],
     metadata |-> dashboard.metadata]

LayoutInit ==
    /\ \E n \in 0..MaxWidgets :
          /\ positions \in [1..n -> [column : InitColumns, row : InitRows]]
          /\ sizes \in [1..n -> [width : InitWidths, height : InitHeights]]
          /\ doc = [version |-> "1.0",
                    layout |-> defaultLayout,
                    widgets |-> [i \in 1..n |->
                                   [id |-> WidgetIds[i], type |-> "text",
                                    position |-> i, size |-> i,
                                    content |-> [text |-> WidgetIds[i]],
                                    config |-> [order |-> i]]],
                    metadata |-> [createdAt |-> 0, lastModified |-> 0,
                                  theme |-> "default", title |-> "New Dashboard"]]
    /\ ret = None
    /\ pc = "idle"
    /\ clock = 0
    /\ snapshot = None
    /\ CodecIdle
    /\ DocIdle

\* what a call does to the caller's state; request holds its arguments
Returned(call, request) ==
    /\ ret' = Ok(call.dashboard)
    /\ positions' = call.positions
    /\ sizes' = call.sizes
    /\ snapshot' = [before |-> deref(doc, positions, sizes),
                    after |-> deref(doc, call.positions, call.sizes),
                    request |-> request]
    /\ pc' = "returned"
    /\ clock' = clock + 1
    /\ UNCHANGED <<doc, codecVars, docVars>>

UpdateDashboardLayoutCall ==
    /\ pc = "idle"
    /\ clock < MaxCalls
    /\ \E newLayout \in ProposedLayouts :
          Returned(updateDashboardLayout(doc, newLayout, clock + 1, positions, sizes),
                   [name |-> "updateDashboardLayout", newLayout |-> newLayout])

ResizeGridCall ==
    /\ pc = "idle"
    /\ clock < MaxCalls
    /\ \E direction \in Directions :
          Returned(resizeGrid(doc, direction, clock + 1, positions, sizes),
                   [name |-> "resizeGrid", direction |-> direction])

\* updateLayoutDimensions(doc, changes), new Date() reading clock + 1
UpdateLayoutDimensionsCall ==
    /\ pc = "idle"
    /\ clock < MaxCalls
    /\ \E changes \in DimensionChanges :
          Returned(updateLayoutDimensions(doc, changes, clock + 1, positions, sizes),
                   [name |-> "updateLayoutDimensions", changes |-> changes])

\* the caller writes to a position or size field of a widget of the ret
MutateResult ==
    /\ pc = "returned"
    /\ \E i \in DOMAIN ret.value.widgets :
          LET w == ret.value.widgets[i]
          IN  \/ /\ positions' = [positions EXCEPT ![w.position].column = @ + 1]
                 /\ UNCHANGED sizes
              \/ /\ positions' = [positions EXCEPT ![w.position].row = @ + 1]
                 /\ UNCHANGED sizes
              \/ /\ sizes' = [sizes EXCEPT ![w.size].width = @ + 1]
                 /\ UNCHANGED positions
              \/ /\ sizes' = [sizes EXCEPT ![w.size].height = @ + 1]
                 /\ UNCHANGED positions
    /\ pc' = "mutated"
    /\ UNCHANGED <<doc, ret, clock, snapshot, codecVars, docVars>>

\* the caller goes on with the dashboard it got back
AdoptResult ==
    /\ pc = "returned"
    /\ doc' = ret.value
    /\ ret' = None
    /\ snapshot' = None
    /\ pc' = "idle"
    /\ UNCHANGED <<positions, sizes, clock, codecVars, docVars>>

Next ==
    \/ UpdateDashboardLayoutCall
    \/ ResizeGridCall
    \/ UpdateLayoutDimensionsCall
    \/ MutateResult
    \/ AdoptResult

Spec == LayoutInit /\ [][Next]_vars

----------------------------------------------------------------------------
(* Claims about the layout migration *)

\* C1: the dashboard returned by updateDashboardLayout shares no position or
\* size record with the input dashboard: after the caller changes a position
\* or size field of a returned widget, every input widget still has the
\* position and size it had when the call returned.
C1_NoAliasing ==
    pc = "mutated" => deref(doc, positions, sizes).widgets = snapshot.after.widgets

\* C2: updateDashboardLayout and resizeGrid treat their input as read-only:
\* when the call has returned, the input dashboard's layout, metadata and
\* every input widget's position and size are what they were before it.
C2_InputReadOnly ==
    pc = "returned" => deref(doc, positions, sizes) = snapshot.before

----------------------------------------------------------------------------
(* One migration: a caller holds a dashboard and makes one call of         *)
(* updateDashboardLayout, resizeGrid or getAffectedWidgets on it.          *)

MaxMigrateWidgets == 2

\* widget values: inside the 4x4 grid, at its last cell and beyond it
MigrateColumns == {0, 3, 5}

MigrateRows == {0, 3}

\* sizes: one cell, wide, and two rows tall and wider than a widget may be
MigrateSizes ==
    {[width |-> 1, height |-> 1],
     [width |-> 3, height |-> 1],
     [width |-> MaxWidgetSize + 1, height |-> 2]}

\* layouts the caller starts with, all in range: the default one and the two
\* with a dimension at each end of its range
StartLayouts ==
    {defaultLayout,
     [defaultLayout EXCEPT !.columns = MinDim, !.rows = MaxDim],
     [defaultLayout EXCEPT !.columns = MaxDim, !.rows = MinDim]}

\* dimensions proposed: below, inside and above the range
MigrateDims == {0, 2, DefaultColumns, MaxDim + 1}

MigrateLayouts == [columns : MigrateDims, rows : MigrateDims, cellSize : ProposedCells]

MigrateInit ==
    /\ \E n \in 0..MaxMigrateWidgets, layout \in StartLayouts :
          /\ positions \in [1..n -> [column : MigrateColumns, row : MigrateRows]]
          /\ sizes \in [1..n -> MigrateSizes]
          /\ doc = [version |-> "1.0",
                    layout |-> layout,
                    widgets |-> [i \in 1..n |->
                                   [id |-> WidgetIds[i], type |-> "text",
                                    position |-> i, size |-> i,
                                    content |-> [text |-> WidgetIds[i]],
                                    config |-> [order |-> i]]],
                    metadata |-> [createdAt |-> 0, lastModified |-> 0,
                                  theme |-> "default", title |-> "New Dashboard",
                                  description |-> "A customizable dashboard",
                                  owner |-> "ann"]]
    /\ ret = None
    /\ pc = "idle"
    /\ clock = 1
    /\ snapshot = None
    /\ CodecIdle
    /\ DocIdle

\* updateDashboardLayout(dashboard, newLayout), new Date() reading clock + 1
UpdateLayoutOnce ==
    /\ pc = "idle"
    /\ \E newLayout \in MigrateLayouts :
          Returned(updateDashboardLayout(doc, newLayout, clock + 1, positions, sizes),
                   [name |-> "updateDashboardLayout", newLayout |-> newLayout])

\* resizeGrid(dashboard, direction), new Date() reading clock + 1
ResizeGridOnce ==
    /\ pc = "idle"
    /\ \E direction \in Directions :
          Returned(resizeGrid(doc, direction, clock + 1, positions, sizes),
                   [name |-> "resizeGrid", direction |-> direction])

\* updateLayoutDimensions(dashboard, changes), new Date() reading clock + 1
UpdateLayoutDimensionsOnce ==
    /\ pc = "idle"
    /\ \E changes \in DimensionChanges :
          Returned(updateLayoutDimensions(doc, changes, clock + 1, positions, sizes),
                   [name |-> "updateLayoutDimensions", changes |-> changes])

\* getAffectedWidgets(dashboard.widgets, currentLayout, newLayout)
GetAffectedWidgetsCall ==
    /\ pc = "idle"
    /\ \E currentLayout \in {doc.layout, defaultLayout},
          newLayout \in [columns : MigrateDims, rows : MigrateDims,
                         cellSize : {defaultLayout.cellSize}] :
          /\ ret' = Ok(getAffectedWidgets(doc.widgets, currentLayout, newLayout,
                                          positions, sizes))
          /\ snapshot' = [before |-> deref(doc, positions, sizes),
                          after |-> deref(doc, positions, sizes),
                          request |-> [name |-> "getAffectedWidgets",
                                       currentLayout |-> currentLayout,
                                       newLayout |-> newLayout]]
    /\ pc' = "classified"
    /\ UNCHANGED <<positions, sizes, doc, clock, codecVars, docVars>>

MigrateNext ==
    \/ UpdateLayoutOnce
    \/ ResizeGridOnce
    \/ UpdateLayoutDimensionsOnce
    \/ GetAffectedWidgetsCall

SpecMigrate == MigrateInit /\ [][MigrateNext]_vars

----------------------------------------------------------------------------
(* JavaScript values, as far as the code below inspects them.              *)
(* An object is a function from its own keys to values, an array a         *)
(* sequence; a number is an integer or NaN.                                *)

Undefined == [t |-> "undefined"]

Null == [t |-> "null"]

Num(n) == [t |-> "number", n |-> n]

NaN == [t |-> "number", nan |-> TRUE]

Str(s) == [t |-> "string", s |-> s]

Obj(f) == [t |-> "object", o |-> f]

Arr(q) == [t |-> "array", a |-> q]

Bool(b) == [t |-> "boolean", b |-> b]

IsNaN(x) == x.t = "number" /\ "nan" \in DOMAIN x

\* typeof x
typeof(x) == IF x.t \in {"null", "array"} THEN "object" ELSE x.t

\* Array.isArray(x)
isArray(x) == x.t = "array"

\* ToBoolean: !x is ~truthy(x)
truthy(x) ==
    CASE x.t \in {"undefined", "null"} -> FALSE
      [] x.t = "number" -> ~IsNaN(x) /\ x.n # 0
      [] x.t = "string" -> x.s # ""
      [] x.t = "boolean" -> x.b
      [] OTHER -> TRUE

\* o.k for an o that is neither null nor undefined
P(o, k) == IF o.t = "object" /\ k \in DOMAIN o.o THEN o.o[k] ELSE Undefined

\* o?.k
OptP(o, k) == IF o.t \in {"undefined", "null"} THEN Undefined ELSE P(o, k)

\* decimal digits of the numeric strings the documents use
NumericStrings == [s \in {"5", "0"} |-> IF s = "5" THEN 5 ELSE 0]

\* Number(x)
Number(x) ==
    CASE x.t = "number" -> x
      [] x.t = "null" -> Num(0)
      [] x.t = "boolean" -> Num(IF x.b THEN 1 ELSE 0)
      [] x.t = "string" ->
             IF x.s = "" THEN Num(0)
             ELSE IF x.s \in DOMAIN NumericStrings THEN Num(NumericStrings[x.s])
             ELSE NaN
      [] x.t = "array" /\ x.a = <<>> -> Num(0)
      [] OTHER -> NaN

\* x < n for a number x: false on NaN
lessThan(x, n) == ~IsNaN(x) /\ x.n < n

\* a || b
OrElse(a, b) == IF truthy(a) THEN a ELSE b

\* JSON.stringify(x) as the value the text denotes: object members that are
\* undefined are left out, undefined array elements and NaN become null
RECURSIVE jsonValue(_)
jsonValue(x) ==
    CASE x.t = "object" ->
             LET keys == {k \in DOMAIN x.o : x.o[k].t # "undefined"}
             IN  Obj([k \in keys |-> jsonValue(x.o[k])])
      [] x.t = "array" ->
             Arr([i \in DOMAIN x.a |->
                     IF x.a[i].t = "undefined" THEN Null ELSE jsonValue(x.a[i])])
      [] x.t = "number" -> IF IsNaN(x) THEN Null ELSE x
      [] OTHER -> x

\* a JSON text, by the value it denotes
stringify(x) == [json |-> jsonValue(x)]

\* a text that is no JSON: JSON.parse throws a SyntaxError on it
malformedText == [syntaxError |-> "Unexpected token"]

\* JSON.parse(text) returns rather than throws
parses(text) == "json" \in DOMAIN text

\* JSON.parse(text), when it returns
parse(text) == text.json

----------------------------------------------------------------------------
(* Geometry validator: src/artifacts/dashboard/utils.ts, lines 109-233     *)

isValidPosition(position, layout) ==
    /\ position.column >= 0
    /\ position.column < layout.columns
    /\ position.row >= 0
    /\ position.row < layout.rows

isValidWidgetPlacement(widget, layout) ==
    LET endColumn == widget.position.column + widget.size.width - 1
        endRow == widget.position.row + widget.size.height - 1
    IN  /\ widget.position.column >= 0
        /\ widget.position.row >= 0
        /\ endColumn < layout.columns
        /\ endRow < layout.rows

doWidgetsOverlapTouching(widget1, widget2) ==
    IF widget1.id = widget2.id
    THEN FALSE
    ELSE LET w1EndCol == widget1.position.column + widget1.size.width
             w1EndRow == widget1.position.row + widget1.size.height
             w2EndCol == widget2.position.column + widget2.size.width
             w2EndRow == widget2.position.row + widget2.size.height
         IN  ~(\/ w1EndCol < widget2.position.column
               \/ widget1.position.column > w2EndCol
               \/ w1EndRow < widget2.position.row
               \/ widget1.position.row > w2EndRow)

doWidgetsOverlap(widget1, widget2) ==
    IF widget1.id = widget2.id
    THEN FALSE
    ELSE LET w1EndCol == widget1.position.column + widget1.size.width - 1
             w1EndRow == widget1.position.row + widget1.size.height - 1
             w2EndCol == widget2.position.column + widget2.size.width - 1
             w2EndRow == widget2.position.row + widget2.size.height - 1
         IN  ~(\/ w1EndCol < widget2.position.column
               \/ widget1.position.column > w2EndCol
               \/ w1EndRow < widget2.position.row
               \/ widget1.position.row > w2EndRow)

\* the numbers widget.position.column, ... of a widget whose position and
\* size are objects of numbers
widgetNumbers(widget) ==
    [id |-> P(widget, "id"),
     position |-> [column |-> P(P(widget, "position"), "column").n,
                   row |-> P(P(widget, "position"), "row").n],
     size |-> [width |-> P(P(widget, "size"), "width").n,
               height |-> P(P(widget, "size"), "height").n]]

\* layout.columns and layout.rows, numbers once the checks on them passed
layoutNumbers(layout) ==
    [columns |-> P(layout, "columns").n, rows |-> P(layout, "rows").n]

\* first loop of validateDashboardData: for (const widget of data.widgets)
RECURSIVE validateEachWidget(_, _, _)
validateEachWidget(widgets, i, layout) ==
    IF i > Len(widgets)
    THEN Ok(TRUE)
    ELSE LET widget == widgets[i]
         IN  IF ~truthy(P(widget, "id")) \/ typeof(P(widget, "id")) # "string"
             THEN Err(<<"Each widget must have a string ID">>)
             ELSE IF ~isValidWidgetPlacement(widgetNumbers(widget), layoutNumbers(layout))
             THEN Err(<<"Widget ", P(widget, "id").s, " is placed outside grid bounds">>)
             ELSE validateEachWidget(widgets, i + 1, layout)

\* second loop of validateDashboardData: for i, for j = i + 1
RECURSIVE validateOverlapFrom(_, _, _)
validateOverlapFrom(widgets, i, j) ==
    IF i > Len(widgets)
    THEN Ok(TRUE)
    ELSE IF j > Len(widgets)
    THEN validateOverlapFrom(widgets, i + 1, i + 2)
    ELSE IF doWidgetsOverlap(widgetNumbers(widgets[i]), widgetNumbers(widgets[j]))
    THEN Err(<<"Widgets ", P(widgets[i], "id").s, " and ", P(widgets[j], "id").s, " overlap">>)
    ELSE validateOverlapFrom(widgets, i, j + 1)

validateDashboardData(data) ==
    IF ~truthy(data) \/ typeof(data) # "object"
    THEN Err(<<"Dashboard data must be an object">>)
    ELSE IF ~truthy(P(data, "version")) \/ typeof(P(data, "version")) # "string"
    THEN Err(<<"Dashboard data must have a version string">>)
    ELSE IF ~truthy(P(data, "layout")) \/ typeof(P(data, "layout")) # "object"
    THEN Err(<<"Dashboard data must have a layout object">>)
    ELSE IF typeof(P(P(data, "layout"), "columns")) # "number"
            \/ lessThan(P(P(data, "layout"), "columns"), 1)
    THEN Err(<<"Layout must have a positive number of columns">>)
    ELSE IF typeof(P(P(data, "layout"), "rows")) # "number"
            \/ lessThan(P(P(data, "layout"), "rows"), 1)
    THEN Err(<<"Layout must have a positive number of rows">>)
    ELSE IF ~isArray(P(data, "widgets"))
    THEN Err(<<"Dashboard data must have a widgets array">>)
    ELSE LET each == validateEachWidget(P(data, "widgets").a, 1, P(data, "layout"))
         IN  IF ~each.ok
             THEN each
             ELSE validateOverlapFrom(P(data, "widgets").a, 1, 2)

----------------------------------------------------------------------------
(* Normalization layer: src/lib/dashboard/serialization.ts, lines 1-282    *)

clampOrNoCeiling(x, lo, hi, fallback) ==
    Num(Max(lo, OrElse(Number(x), Num(fallback)).n))

\* Math.max(lo, Math.min(hi, Number(x) || fallback))
clampOr(x, lo, hi, fallback) ==
    Num(Max(lo, Min(hi, OrElse(Number(x), Num(fallback)).n)))

\* Math.max(0, Number(x) || 0)
nonNegativeOr(x) == Num(Max(0, OrElse(Number(x), Num(0)).n))

\* the layout literal of validateAndNormalizeDashboard and deserializeLayout
normalizeLayout(layout) ==
    Obj([columns |-> clampOr(P(layout, "columns"), MinDim, MaxDim, DefaultColumns),
         rows |-> clampOr(P(layout, "rows"), MinDim, MaxDim, DefaultRows),
         cellSize |-> Obj(
             [width |-> clampOr(OptP(P(layout, "cellSize"), "width"),
                                MinCell, MaxCell, DefaultCellWidth),
              height |-> clampOr(OptP(P(layout, "cellSize"), "height"),
                                 MinCell, MaxCell, DefaultCellHeight)])])

\* the widget literal returned by the map callback of validateAndNormalizeDashboard
normalizeWidget(widget) ==
    Obj([id |-> P(widget, "id"),
         type |-> P(widget, "type"),
         position |-> Obj([column |-> nonNegativeOr(P(P(widget, "position"), "column")),
                           row |-> nonNegativeOr(P(P(widget, "position"), "row"))]),
         size |-> Obj([width |-> clampOr(P(P(widget, "size"), "width"),
                                         MinWidgetSize, MaxWidgetSize, 1),
                       height |-> clampOr(P(P(widget, "size"), "height"),
                                          MinWidgetSize, MaxWidgetSize, 1)]),
         content |-> OrElse(P(widget, "content"), Obj(<<>>)),
         config |-> OrElse(P(widget, "config"), Obj(<<>>))])

invalidWidget(index, what) == Err(<<"Invalid widget at index ", ToString(index), what>>)

\* data.widgets.map(...) of validateAndNormalizeDashboard; index i - 1 in the messages
RECURSIVE normalizeWidgetsFrom(_, _, _)
normalizeWidgetsFrom(widgets, i, done) ==
    IF i > Len(widgets)
    THEN Ok(Arr(done))
    ELSE LET widget == widgets[i]
         IN  IF ~truthy(widget) \/ typeof(widget) # "object"
             THEN invalidWidget(i - 1, ": must be an object")
             ELSE IF ~truthy(P(widget, "id")) \/ typeof(P(widget, "id")) # "string"
             THEN invalidWidget(i - 1, ": missing or invalid id")
             ELSE IF ~truthy(P(widget, "type")) \/ typeof(P(widget, "type")) # "string"
             THEN invalidWidget(i - 1, ": missing or invalid type")
             ELSE IF ~truthy(P(widget, "position")) \/ typeof(P(widget, "position")) # "object"
             THEN invalidWidget(i - 1, ": missing or invalid position")
             ELSE IF ~truthy(P(widget, "size")) \/ typeof(P(widget, "size")) # "object"
             THEN invalidWidget(i - 1, ": missing or invalid size")
             ELSE normalizeWidgetsFrom(widgets, i + 1, Append(done, normalizeWidget(widget)))

\* the metadata literal of validateAndNormalizeDashboard and deserializeMetadata;
\* now is new Date().toISOString()
normalizeMetadata(metadata, now) ==
    Obj([createdAt |-> OrElse(P(metadata, "createdAt"), Str(now)),
         lastModified |-> OrElse(P(metadata, "lastModified"), Str(now)),
         theme |-> OrElse(P(metadata, "theme"), Str("default")),
         title |-> OrElse(P(metadata, "title"), Str("Untitled Dashboard")),
         description |-> OrElse(P(metadata, "description"), Str(""))])

validateAndNormalizeDashboard(data, now) ==
    IF ~truthy(data) \/ typeof(data) # "object"
    THEN Err(<<"Invalid dashboard data: must be an object">>)
    ELSE IF ~truthy(P(data, "version")) \/ typeof(P(data, "version")) # "string"
    THEN Err(<<"Invalid dashboard data: missing or invalid version">>)
    ELSE IF ~truthy(P(data, "layout")) \/ typeof(P(data, "layout")) # "object"
    THEN Err(<<"Invalid dashboard data: missing or invalid layout">>)
    ELSE IF ~isArray(P(data, "widgets"))
    THEN Err(<<"Invalid dashboard data: widgets must be an array">>)
    ELSE IF ~truthy(P(data, "metadata")) \/ typeof(P(data, "metadata")) # "object"
    THEN Err(<<"Invalid dashboard data: missing or invalid metadata">>)
    ELSE LET widgets == normalizeWidgetsFrom(P(data, "widgets").a, 1, <<>>)
         IN  IF ~widgets.ok
             THEN widgets
             ELSE Ok(Obj([version |-> P(data, "version"),
                          layout |-> normalizeLayout(P(data, "layout")),
                          widgets |-> widgets.value,
                          metadata |-> normalizeMetadata(P(data, "metadata"), now)]))

\* JSON.stringify(dashboard, null, 2)
serializeDashboard(dashboard) == stringify(dashboard)

\* JSON.stringify(layout, null, 2)
serializeLayout(layout) == stringify(layout)

deserializeDashboard(jsonString, now) ==
    IF ~parses(jsonString)
    THEN Err(<<"Failed to deserialize dashboard: ", jsonString.syntaxError>>)
    ELSE LET normalized == validateAndNormalizeDashboard(parse(jsonString), now)
         IN  IF normalized.ok
             THEN normalized
             ELSE Err(<<"Failed to deserialize dashboard: ">> \o normalized.error)

deserializeLayout(jsonString) ==
    IF ~parses(jsonString)
    THEN Err(<<"Failed to deserialize layout: ", jsonString.syntaxError>>)
    ELSE LET parsed == parse(jsonString)
         IN  IF ~truthy(parsed) \/ typeof(parsed) # "object"
             THEN Err(<<"Failed to deserialize layout: ",
                        "Invalid layout data: must be an object">>)
             ELSE Ok(normalizeLayout(parsed))

\* the widget literal returned by the map callback of deserializeWidgets
defaultedWidget(widget, index) ==
    Obj([id |-> OrElse(P(widget, "id"), Str("widget-" \o ToString(index))),
         type |-> OrElse(P(widget, "type"), Str("text")),
         position |-> Obj([column |-> nonNegativeOr(OptP(P(widget, "position"), "column")),
                           row |-> nonNegativeOr(OptP(P(widget, "position"), "row"))]),
         size |-> Obj([width |-> clampOr(OptP(P(widget, "size"), "width"),
                                         MinWidgetSize, MaxWidgetSize, 1),
                       height |-> clampOr(OptP(P(widget, "size"), "height"),
                                          MinWidgetSize, MaxWidgetSize, 1)]),
         content |-> OrElse(P(widget, "content"), Obj(<<>>)),
         config |-> OrElse(P(widget, "config"), Obj(<<>>))])

\* parsed.map(...) of deserializeWidgets; index i - 1 in the messages
RECURSIVE defaultWidgetsFrom(_, _, _)
defaultWidgetsFrom(widgets, i, done) ==
    IF i > Len(widgets)
    THEN Ok(Arr(done))
    ELSE IF ~truthy(widgets[i]) \/ typeof(widgets[i]) # "object"
    THEN Err(<<"Failed to deserialize widgets: ", "Invalid widget at index ",
               ToString(i - 1), ": must be an object">>)
    ELSE defaultWidgetsFrom(widgets, i + 1, Append(done, defaultedWidget(widgets[i], i - 1)))

deserializeWidgets(jsonString) ==
    IF ~parses(jsonString)
    THEN Err(<<"Failed to deserialize widgets: ", jsonString.syntaxError>>)
    ELSE LET parsed == parse(jsonString)
         IN  IF ~isArray(parsed)
             THEN Err(<<"Failed to deserialize widgets: ",
                        "Invalid widgets data: must be an array">>)
             ELSE defaultWidgetsFrom(parsed.a, 1, <<>>)

deserializeMetadata(jsonString, now) ==
    IF ~parses(jsonString)
    THEN Err(<<"Failed to deserialize metadata: ", jsonString.syntaxError>>)
    ELSE LET parsed == parse(jsonString)
         IN  IF ~truthy(parsed) \/ typeof(parsed) # "object"
             THEN Err(<<"Failed to deserialize metadata: ",
                        "Invalid metadata: must be an object">>)
             ELSE Ok(normalizeMetadata(parsed, now))

validateDashboardJSON(jsonString, now) ==
    LET normalized == IF parses(jsonString)
                      THEN validateAndNormalizeDashboard(parse(jsonString), now)
                      ELSE Err(<<jsonString.syntaxError>>)
        errors == IF normalized.ok THEN <<>> ELSE <<normalized.error>>
    IN  [isValid |-> Len(errors) = 0, errors |-> errors]

----------------------------------------------------------------------------
(* Document driver: a caller hands one value to validateDashboardData, or  *)
(* serializes it and hands the text to deserializeDashboard,               *)
(* validateDashboardJSON or deserializeLayout.                             *)

MaxDocWidgets == 3

MaxTextWidgets == 2

DocIds == {"a", "b", "c"}

DocColumns == {0, 1}

DocWidths == {1, 2}

DocRows == {0, 1}

Now == "2026-01-01T00:00:00.000Z"

Created == "2025-01-01T00:00:00.000Z"

docWidget(id, column, row, width, height) ==
    Obj([id |-> id,
         type |-> Str("text"),
         position |-> Obj([column |-> Num(column), row |-> Num(row)]),
         size |-> Obj([width |-> Num(width), height |-> Num(height)]),
         content |-> Obj([text |-> Str("hi")]),
         config |-> Obj(<<>>)])

docLayout(columns, rows, cellSize) ==
    Obj([columns |-> columns, rows |-> rows, cellSize |-> cellSize])

docCell(width, height) == Obj([width |-> width, height |-> height])

fullMetadata ==
    Obj([createdAt |-> Str(Created), lastModified |-> Str(Created), theme |-> Str("dark"),
         title |-> Str("Sales"), description |-> Str("Q1")])

\* metadata with an extension key next to the five named ones
extendedMetadata ==
    Obj([createdAt |-> Str(Created), lastModified |-> Str(Created), theme |-> Str("dark"),
         title |-> Str("Sales"), description |-> Str("Q1"), owner |-> Str("ann")])

\* metadata with only the keys DashboardMetadata requires (part_001, lines 45-50)
requiredMetadata ==
    Obj([createdAt |-> Str(Created), lastModified |-> Str(Created), theme |-> Str("dark")])

dashboardValue(version, layout, widgets, metadata) ==
    Obj([version |-> version, layout |-> layout, widgets |-> widgets, metadata |-> metadata])

\* widget lists of up to n widgets on a grid of 2 columns and 2 rows
GeometryWidgets ==
    {docWidget(Str(id), column, row, width, 1) :
        id \in DocIds, column \in DocColumns, row \in DocRows, width \in DocWidths}

GeometryInput(n) ==
    \E m \in 0..n : \E ws \in [1..m -> GeometryWidgets] :
        dData = dashboardValue(Str("1.0"),
                               docLayout(Num(2), Num(2),
                                         docCell(Num(DefaultCellWidth), Num(DefaultCellHeight))),
                               Arr(ws), fullMetadata)

\* values of the layout fields: integers in and out of range, absent, numeric text
DimValues == {Undefined, Num(-1), Num(0), Num(1), Num(12), Num(13), Num(99), Str("5")}

CellValues == {Undefined, Num(0), Num(99), Num(100), Num(500), Num(501)}

CellSizes == {Undefined} \cup {docCell(w, h) : w \in CellValues, h \in CellValues}

LayoutInput ==
    \E columns \in DimValues, rows \in DimValues, cellSize \in CellSizes,
       ws \in {<<>>, <<docWidget(Str("a"), 0, 0, 1, 1)>>} :
        dData = dashboardValue(Str("1.0"), docLayout(columns, rows, cellSize), Arr(ws),
                               fullMetadata)

\* values of the top-level fields and of the widget id
ShapeInput ==
    \E version \in {Str("1.0"), Str(""), Undefined, Num(1)},
       layout \in {Undefined,
                   docLayout(Num(4), Num(4),
                             docCell(Num(DefaultCellWidth), Num(DefaultCellHeight)))},
       widgets \in {Undefined, Arr(<<>>)}
                   \cup {Arr(<<docWidget(id, 0, 0, 1, 1)>>) :
                            id \in {Str("a"), Str(""), Undefined}}
                   \cup {Arr(<<docWidget(Str("a"), 0, 0, 1, 1), docWidget(id, 1, 1, 7, 1)>>) :
                            id \in {Str("a"), Str("b")}},
       metadata \in {Undefined, fullMetadata, extendedMetadata, requiredMetadata} :
        dData = dashboardValue(version, layout, widgets, metadata)

\* a value that is no object
PrimitiveInput == dData \in {Undefined, Null}

DocInit ==
    /\ dpc = "start"
    /\ \/ GeometryInput(MaxTextWidgets)
       \/ LayoutInput
       \/ ShapeInput
       \/ PrimitiveInput
    /\ dText = None
    /\ dOut = None
    /\ CodecIdle
    /\ LayoutIdle

\* serializeDashboard(data)
SerializeDashboardCall ==
    /\ dpc = "start"
    /\ dData.t = "object"
    /\ dText' = serializeDashboard(dData)
    /\ dpc' = "serialized"
    /\ UNCHANGED <<dData, dOut, codecVars, layoutVars>>

\* deserializeDashboard(serializeDashboard(data))
DeserializeDashboardCall ==
    /\ dpc = "serialized"
    /\ dOut' = deserializeDashboard(dText, Now)
    /\ dpc' = "deserialized"
    /\ UNCHANGED <<dData, dText, codecVars, layoutVars>>

\* validateDashboardJSON(serializeDashboard(data))
ValidateJSONCall ==
    /\ dpc = "serialized"
    /\ dOut' = validateDashboardJSON(dText, Now)
    /\ dpc' = "jsonValidated"
    /\ UNCHANGED <<dData, dText, codecVars, layoutVars>>

\* serializeLayout(data.layout)
SerializeLayoutCall ==
    /\ dpc = "start"
    /\ dData.t = "object"
    /\ P(dData, "layout").t = "object"
    /\ dText' = serializeLayout(P(dData, "layout"))
    /\ dpc' = "layoutSerialized"
    /\ UNCHANGED <<dData, dOut, codecVars, layoutVars>>

\* deserializeLayout(serializeLayout(data.layout))
DeserializeLayoutCall ==
    /\ dpc = "layoutSerialized"
    /\ dOut' = deserializeLayout(dText)
    /\ dpc' = "layoutDeserialized"
    /\ UNCHANGED <<dData, dText, codecVars, layoutVars>>

DocNext ==
    \/ SerializeDashboardCall
    \/ DeserializeDashboardCall
    \/ ValidateJSONCall
    \/ SerializeLayoutCall
    \/ DeserializeLayoutCall

SpecDoc == DocInit /\ [][DocNext]_vars

----------------------------------------------------------------------------
(* Validation driver: a caller hands one value to validateDashboardData    *)

ValidateInit ==
    /\ dpc = "start"
    /\ \/ GeometryInput(MaxDocWidgets)
       \/ LayoutInput
       \/ ShapeInput
       \/ PrimitiveInput
    /\ dText = None
    /\ dOut = None
    /\ CodecIdle
    /\ LayoutIdle

\* validateDashboardData(data)
ValidateDataCall ==
    /\ dpc = "start"
    /\ dOut' = validateDashboardData(dData)
    /\ dpc' = "validated"
    /\ UNCHANGED <<dData, dText, codecVars, layoutVars>>

SpecValidate == ValidateInit /\ [][ValidateDataCall]_vars

----------------------------------------------------------------------------
(* Text driver: a caller holds one text, a JSON text or a malformed one,   *)
(* and hands it to one of the four deserializers.                          *)

MaxParsedWidgets == 2

\* a widget of a parsed document, each field any value
parsedWidget(id, type, position, size) ==
    Obj([id |-> id, type |-> type, position |-> position, size |-> size])

okPosition == Obj([column |-> Num(0), row |-> Num(0)])

okSize == Obj([width |-> Num(1), height |-> Num(1)])

okLayout == docLayout(Num(4), Num(4), docCell(Num(DefaultCellWidth), Num(DefaultCellHeight)))

\* position objects with numbers below zero, text and absent members
NumericPositions ==
    {Obj(<<>>),
     Obj([column |-> Num(-1), row |-> Num(2)]),
     Obj([column |-> Num(2), row |-> Str("x")]),
     Obj([column |-> Null, row |-> Num(0)])}

\* size objects with numbers below 1 and above 6, numeric text and absent members
NumericSizes ==
    {Obj(<<>>),
     Obj([width |-> Num(0), height |-> Num(7)]),
     Obj([width |-> Num(3), height |-> Num(-1)]),
     Obj([width |-> Str("5"), height |-> Num(6)])}

\* a document of the right shape whose widgets carry any numbers
NumericText ==
    \E m \in 0..MaxParsedWidgets :
    \E ws \in [1..m -> {parsedWidget(Str("a"), Str("text"), position, size) :
                            position \in NumericPositions, size \in NumericSizes}] :
        dText = stringify(dashboardValue(Str("1.0"), okLayout, Arr(ws), fullMetadata))

\* a document of the right shape whose layout carries any numbers, and that
\* layout alone
LayoutText ==
    \E columns \in DimValues, rows \in DimValues, cellSize \in CellSizes :
        \/ dText = stringify(dashboardValue(Str("1.0"), docLayout(columns, rows, cellSize),
                                            Arr(<<>>), requiredMetadata))
        \/ dText = stringify(docLayout(columns, rows, cellSize))

\* array elements that are a widget with each required field right, absent
\* or of another type, or no object at all
FaultyWidgets ==
    {parsedWidget(id, type, position, size) :
        id \in {Str("a"), Str(""), Undefined, Num(7)},
        type \in {Str("text"), Undefined},
        position \in {okPosition, Undefined},
        size \in {okSize, Null}}
    \cup {parsedWidget(Str("a"), Str(""), okPosition, okSize),
          parsedWidget(Str("a"), Num(7), okPosition, okSize),
          parsedWidget(Str("a"), Str("text"), Arr(<<>>), okSize),
          parsedWidget(Str("a"), Str("text"), okPosition, Str("1x1")),
          Null, Num(7)}

\* a document with such widgets, and the widget list alone
WidgetsText ==
    \E m \in 0..MaxParsedWidgets : \E ws \in [1..m -> FaultyWidgets] :
        \/ dText = stringify(dashboardValue(Str("1.0"), okLayout, Arr(ws), fullMetadata))
        \/ dText = stringify(Arr(ws))

\* a document with each top-level field right, absent or of another type
TopLevelText ==
    \E version \in {Str("1.0"), Str(""), Undefined, Num(1)},
       layout \in {okLayout, Undefined, Null, Arr(<<>>), Str("4x4")},
       widgets \in {Arr(<<>>), Undefined, Null, Obj(<<>>)},
       metadata \in {fullMetadata, Undefined, Null, Arr(<<>>)} :
        dText = stringify(dashboardValue(version, layout, widgets, metadata))

\* metadata alone, values that are no object and a text that is no JSON
FragmentText ==
    \/ \E value \in {fullMetadata, extendedMetadata, requiredMetadata, Obj(<<>>),
                      Arr(<<>>), Null, Num(7), Str("x")} :
           dText = stringify(value)
    \/ dText = malformedText

\* a widget list whose elements carry no id, or an id of the form the code
\* makes up for elements without one
NamedWidgetsText ==
    \E m \in 0..MaxParsedWidgets :
    \E ws \in [1..m -> {parsedWidget(id, Str("text"), okPosition, okSize) :
                            id \in {Undefined, Str("a"), Str("widget-0"), Str("widget-1")}}] :
        dText = stringify(Arr(ws))

TextInit ==
    /\ dpc = "text"
    /\ dData = Undefined
    /\ \/ NumericText
       \/ LayoutText
       \/ WidgetsText
       \/ NamedWidgetsText
       \/ TopLevelText
       \/ FragmentText
    /\ dOut = None
    /\ CodecIdle
    /\ LayoutIdle

\* deserializeDashboard(text)
DeserializeDashboardText ==
    /\ dpc = "text"
    /\ dOut' = deserializeDashboard(dText, Now)
    /\ dpc' = "dashboardRead"
    /\ UNCHANGED <<dData, dText, codecVars, layoutVars>>

\* deserializeLayout(text)
DeserializeLayoutText ==
    /\ dpc = "text"
    /\ dOut' = deserializeLayout(dText)
    /\ dpc' = "layoutRead"
    /\ UNCHANGED <<dData, dText, codecVars, layoutVars>>

\* deserializeWidgets(text)
DeserializeWidgetsText ==
    /\ dpc = "text"
    /\ dOut' = deserializeWidgets(dText)
    /\ dpc' = "widgetsRead"
    /\ UNCHANGED <<dData, dText, codecVars, layoutVars>>

\* deserializeMetadata(text)
DeserializeMetadataText ==
    /\ dpc = "text"
    /\ dOut' = deserializeMetadata(dText, Now)
    /\ dpc' = "metadataRead"
    /\ UNCHANGED <<dData, dText, codecVars, layoutVars>>

TextNext ==
    \/ DeserializeDashboardText
    \/ DeserializeLayoutText
    \/ DeserializeWidgetsText
    \/ DeserializeMetadataText

SpecText == TextInit /\ [][TextNext]_vars

----------------------------------------------------------------------------
(* Factory: src/lib/dashboard/create.ts. now is new Date().toISOString().  *)

createDefaultDashboard(title, now) ==
    LET defaultLayoutValue ==
            Obj([columns |-> Num(DefaultColumns),
                 rows |-> Num(DefaultRows),
                 cellSize |-> Obj([width |-> Num(DefaultCellWidth),
                                   height |-> Num(DefaultCellHeight)])])
    IN  Obj([version |-> Str("1.0"),
             layout |-> defaultLayoutValue,
             widgets |-> Arr(<<>>),
             metadata |-> Obj(
                 [createdAt |-> Str(now),
                  lastModified |-> Str(now),
                  theme |-> Str("default"),
                  title |-> OrElse(title, Str("New Dashboard")),
                  description |->
                      Str("A customizable dashboard with 4x4 grid layout")])])

sampleWidgetsCrowded ==
    <<docWidget(Str("widget-1"), 0, 0, 2, 1),
      docWidget(Str("widget-2"), 2, 0, 2, 1),
      docWidget(Str("widget-3"), 0, 0, 4, 2),
      docWidget(Str("widget-4"), 0, 3, 4, 1)>>

\* const sampleWidgets: Widget[] = [...]
sampleWidgets ==
    <<Obj([id |-> Str("widget-1"),
           type |-> Str("text"),
           position |-> Obj([column |-> Num(0), row |-> Num(0)]),
           size |-> Obj([width |-> Num(2), height |-> Num(1)]),
           content |-> Obj([text |-> Str("Welcome to your Dashboard")]),
           config |-> Obj([fontSize |-> Str("18px"), fontWeight |-> Str("bold")])]),
      Obj([id |-> Str("widget-2"),
           type |-> Str("metric"),
           position |-> Obj([column |-> Num(2), row |-> Num(0)]),
           size |-> Obj([width |-> Num(2), height |-> Num(1)]),
           content |-> Obj([value |-> Str("1,234"), label |-> Str("Total Users"),
                            trend |-> Str("+12%")]),
           config |-> Obj([color |-> Str("blue")])]),
      Obj([id |-> Str("widget-3"),
           type |-> Str("chart"),
           position |-> Obj([column |-> Num(0), row |-> Num(1)]),
           size |-> Obj([width |-> Num(4), height |-> Num(2)]),
           content |-> Obj([type |-> Str("line"),
                            data |-> Arr(<<Num(10), Num(20), Num(15), Num(30), Num(25),
                                           Num(40), Num(35)>>),
                            labels |-> Arr(<<Str("Mon"), Str("Tue"), Str("Wed"), Str("Thu"),
                                             Str("Fri"), Str("Sat"), Str("Sun")>>)]),
           config |-> Obj([title |-> Str("Weekly Activity")])]),
      Obj([id |-> Str("widget-4"),
           type |-> Str("table"),
           position |-> Obj([column |-> Num(0), row |-> Num(3)]),
           size |-> Obj([width |-> Num(4), height |-> Num(1)]),
           content |-> Obj([headers |-> Arr(<<Str("Name"), Str("Status"),
                                              Str("Last Active")>>),
                            rows |-> Arr(<<Arr(<<Str("John Doe"), Str("Active"),
                                                 Str("2 hours ago")>>),
                                           Arr(<<Str("Jane Smith"), Str("Away"),
                                                 Str("1 day ago")>>),
                                           Arr(<<Str("Bob Johnson"), Str("Active"),
                                                 Str("30 min ago")>>)>>)]),
           config |-> Obj([striped |-> Bool(TRUE)])])>>

createSampleDashboard(title, now) ==
    Obj([version |-> Str("1.0"),
         layout |-> Obj([columns |-> Num(4),
                         rows |-> Num(4),
                         cellSize |-> Obj([width |-> Num(200), height |-> Num(150)])]),
         widgets |-> Arr(sampleWidgets),
         metadata |-> Obj([createdAt |-> Str(now),
                           lastModified |-> Str(now),
                           theme |-> Str("default"),
                           title |-> OrElse(title, Str("Sample Dashboard")),
                           description |->
                               Str("A sample dashboard with example widgets")])])

----------------------------------------------------------------------------
(* Factory driver: a caller creates a default or a sample dashboard at     *)
(* some time and hands it to validateDashboardData.                        *)

MaxFactoryClock == 9

\* new Date().toISOString() at the second t of a minute
toISOString(t) == "2026-01-01T00:00:0" \o ToString(t) \o ".000Z"

FactoryInit ==
    /\ dpc = "start"
    /\ dData \in {Undefined, Str(""), Str("Sales"), Str("Q1 review")}
    /\ dText = None
    /\ dOut = None
    /\ clock \in 0..MaxFactoryClock
    /\ positions = <<>>
    /\ sizes = <<>>
    /\ doc = [version |-> "none"]
    /\ ret = None
    /\ pc = "off"
    /\ snapshot = None
    /\ CodecIdle

\* createDefaultDashboard(title)
CreateDefaultDashboardCall ==
    /\ dpc = "start"
    /\ dOut' = Ok(createDefaultDashboard(dData, toISOString(clock)))
    /\ dpc' = "defaultCreated"
    /\ UNCHANGED <<dData, dText, codecVars, layoutVars>>

\* createSampleDashboard(title)
CreateSampleDashboardCall ==
    /\ dpc = "start"
    /\ dOut' = Ok(createSampleDashboard(dData, toISOString(clock)))
    /\ dpc' = "sampleCreated"
    /\ UNCHANGED <<dData, dText, codecVars, layoutVars>>

\* validateDashboardData(created)
ValidateCreatedCall ==
    /\ dpc \in {"defaultCreated", "sampleCreated"}
    /\ dData' = dOut.value
    /\ dOut' = validateDashboardData(dOut.value)
    /\ dpc' = IF dpc = "sampleCreated" THEN "sampleValidated" ELSE "defaultValidated"
    /\ UNCHANGED <<dText, codecVars, layoutVars>>

FactoryNext ==
    \/ CreateDefaultDashboardCall
    \/ CreateSampleDashboardCall
    \/ ValidateCreatedCall

SpecFactory == FactoryInit /\ [][FactoryNext]_vars

----------------------------------------------------------------------------
(* Document generator and stream handling: src/unnamed/part_002, lines     *)
(* 62-220, and src/artifacts/dashboard/artifact.tsx, lines 75-418.         *)
(* dText is the artifact's content, dData the stream parts written and not *)
(* yet handled, oldest first, dOut the artifact's metadata, the document   *)
(* onUpdateDocument was given, the generator's draft and the number of     *)
(* parts handled, dpc the generator's position.                            *)

\* '' as a content
emptyContent == [empty |-> TRUE]

\* content || '{}'
contentOrEmptyObject(content) ==
    IF content = emptyContent THEN stringify(Obj(<<>>)) ELSE content

\* the own keys an object spread copies: none of undefined or null
ownKeys(x) == IF x.t = "object" THEN DOMAIN x.o ELSE {}

\* { ...a, ...b }
spread(a, b) ==
    Obj([k \in ownKeys(a) \cup ownKeys(b) |->
            IF k \in ownKeys(b) THEN b.o[k] ELSE a.o[k]])

\* the 4x4 layout of 200x150 cells that part_002 and artifact.tsx write out
defaultLayoutValue ==
    docLayout(Num(DefaultColumns), Num(DefaultRows),
              docCell(Num(DefaultCellWidth), Num(DefaultCellHeight)))

\* the candidate of onCreateDocument for one object of the model's stream
generatedDashboard(object, now) ==
    Obj([version |-> Str("1.0"),
         layout |-> P(object, "layout"),
         widgets |-> P(object, "widgets"),
         metadata |-> Obj([createdAt |-> Str(now),
                           lastModified |-> Str(now),
                           theme |-> OrElse(P(P(object, "metadata"), "theme"),
                                            Str("default")),
                           title |-> OrElse(P(P(object, "metadata"), "title"),
                                            Str("New Dashboard")),
                           description |->
                               OrElse(P(P(object, "metadata"), "description"),
                                      Str("A customizable dashboard"))])])

\* the body of the loop of onCreateDocument on a delta of type 'object':
\* the content written to the stream and kept as the draft, if any
generatedContent(object, now) ==
    IF truthy(object) /\ truthy(P(object, "layout")) /\ truthy(P(object, "widgets"))
       /\ truthy(P(object, "metadata"))
    THEN Ok(stringify(generatedDashboard(object, now)))
    ELSE None

\* the dashboard onCreateDocument falls back to when nothing was generated
defaultDashboard(title, now) ==
    Obj([version |-> Str("1.0"),
         layout |-> defaultLayoutValue,
         widgets |-> Arr(<<>>),
         metadata |-> Obj([createdAt |-> Str(now),
                           lastModified |-> Str(now),
                           theme |-> Str("default"),
                           title |-> OrElse(title, Str("New Dashboard")),
                           description |->
                               Str("A customizable dashboard with grid layout")])])

\* JSON.parse(document.content || '{}') at the start of onUpdateDocument
currentDashboardOf(document) ==
    LET text == contentOrEmptyObject(document.content)
    IN  IF parses(text) THEN Ok(parse(text)) ELSE Err(<<text.syntaxError>>)

\* the candidate of onUpdateDocument for one object of the model's stream
updatedDashboard(currentDashboard, object, now) ==
    LET current == P(currentDashboard, "metadata")
    IN  Obj([version |-> Str("1.0"),
             layout |-> P(object, "layout"),
             widgets |-> P(object, "widgets"),
             metadata |-> Obj([createdAt |-> P(current, "createdAt"),
                               lastModified |-> Str(now),
                               theme |-> OrElse(P(P(object, "metadata"), "theme"),
                                                P(current, "theme")),
                               title |-> OrElse(P(P(object, "metadata"), "title"),
                                                P(current, "title")),
                               description |->
                                   OrElse(P(P(object, "metadata"), "description"),
                                          P(current, "description"))])])

\* the body of the loop of onUpdateDocument on a delta of type 'object': the
\* content written and kept as the draft, nothing, or the TypeError of
\* reading createdAt of a metadata that is undefined or null
updatedContent(currentDashboard, object, now) ==
    IF truthy(object) /\ truthy(P(object, "layout")) /\ truthy(P(object, "widgets"))
       /\ truthy(P(object, "metadata"))
    THEN IF \/ currentDashboard.t \in {"undefined", "null"}
            \/ P(currentDashboard, "metadata").t \in {"undefined", "null"}
         THEN Err(<<"TypeError">>)
         ELSE Ok(stringify(updatedDashboard(currentDashboard, object, now)))
    ELSE None

\* the dashboard the catch block of onUpdateDocument writes
fallbackDashboard(title, now) ==
    Obj([version |-> Str("1.0"),
         layout |-> defaultLayoutValue,
         widgets |-> Arr(<<>>),
         metadata |-> Obj([createdAt |-> Str(now),
                           lastModified |-> Str(now),
                           theme |-> Str("default"),
                           title |-> title,
                           description |->
                               Str("A customizable dashboard with grid layout")])])

\* the metadata that initialize sets, as far as the stream handling uses it
initialMetadata(now) ==
    [layout |-> defaultLayoutValue, widgets |-> Arr(<<>>), theme |-> Str("default"),
     lastModified |-> Str(now)]

\* { ...currentData.metadata, lastModified: new Date().toISOString() }
touchedMetadata(currentData, now) ==
    spread(P(currentData, "metadata"), Obj([lastModified |-> Str(now)]))

\* widgets.map(widget => widget.id === update.id ? { ...widget, ...update } : widget)
updatedWidgets(widgets, update) ==
    [i \in DOMAIN widgets |->
        IF P(widgets[i], "id") = P(update, "id")
        THEN spread(widgets[i], update)
        ELSE widgets[i]]

\* widgets.filter(widget => widget.id !== widgetId)
RECURSIVE remainingWidgets(_, _, _, _)
remainingWidgets(widgets, i, widgetId, done) ==
    IF i > Len(widgets)
    THEN done
    ELSE remainingWidgets(widgets, i + 1, widgetId,
                          IF P(widgets[i], "id") # widgetId
                          THEN Append(done, widgets[i])
                          ELSE done)

\* case 'data-dashboardDelta'
onDashboardDelta(data, artifact, now) ==
    IF ~parses(data)
    THEN artifact
    ELSE LET dashboardData == parse(data)
         IN  [content |-> data,
              metadata |-> [layout |-> P(dashboardData, "layout"),
                            widgets |-> P(dashboardData, "widgets"),
                            theme |-> P(P(dashboardData, "metadata"), "theme"),
                            lastModified |-> Str(now)]]

\* JSON.parse(draftArtifact.content || '{}') in setArtifact's updater
currentDataOf(artifact) ==
    LET text == contentOrEmptyObject(artifact.content)
    IN  IF parses(text) THEN Ok(parse(text)) ELSE Err(<<text.syntaxError>>)

\* case 'data-dashboardLayoutChange'
onDashboardLayoutChange(data, artifact, now) ==
    IF ~parses(data)
    THEN artifact
    ELSE LET layoutChange == parse(data)
             currentData == currentDataOf(artifact)
         IN  [content |->
                  IF currentData.ok
                  THEN stringify(spread(currentData.value,
                                        Obj([layout |-> layoutChange,
                                             metadata |-> touchedMetadata(currentData.value,
                                                                          now)])))
                  ELSE artifact.content,
              metadata |-> [artifact.metadata EXCEPT !.layout = layoutChange,
                                                     !.lastModified = Str(now)]]

\* case 'data-dashboardWidgetAdd': spreading widgets that are no array throws
onDashboardWidgetAdd(data, artifact, now) ==
    IF ~parses(data)
    THEN artifact
    ELSE LET newWidget == parse(data)
             currentData == currentDataOf(artifact)
         IN  [content |->
                  IF currentData.ok /\ isArray(P(currentData.value, "widgets"))
                  THEN stringify(spread(currentData.value,
                                        Obj([widgets |->
                                                 Arr(Append(P(currentData.value, "widgets").a,
                                                            newWidget)),
                                             metadata |-> touchedMetadata(currentData.value,
                                                                          now)])))
                  ELSE artifact.content,
              metadata |-> [artifact.metadata EXCEPT
                               !.widgets = Arr(Append(artifact.metadata.widgets.a,
                                                      newWidget)),
                               !.lastModified = Str(now)]]

\* case 'data-dashboardWidgetUpdate': map of widgets that are no array throws
onDashboardWidgetUpdate(data, artifact, now) ==
    IF ~parses(data)
    THEN artifact
    ELSE LET widgetUpdate == parse(data)
             currentData == currentDataOf(artifact)
         IN  [content |->
                  IF currentData.ok /\ isArray(P(currentData.value, "widgets"))
                  THEN stringify(spread(currentData.value,
                                        Obj([widgets |->
                                                 Arr(updatedWidgets(
                                                         P(currentData.value, "widgets").a,
                                                         widgetUpdate)),
                                             metadata |-> touchedMetadata(currentData.value,
                                                                          now)])))
                  ELSE artifact.content,
              metadata |-> [artifact.metadata EXCEPT
                               !.widgets = Arr(updatedWidgets(artifact.metadata.widgets.a,
                                                              widgetUpdate)),
                               !.lastModified = Str(now)]]

\* case 'data-dashboardWidgetRemove': the data is the id itself
onDashboardWidgetRemove(widgetId, artifact, now) ==
    LET currentData == currentDataOf(artifact)
    IN  [content |->
             IF currentData.ok /\ isArray(P(currentData.value, "widgets"))
             THEN stringify(spread(currentData.value,
                                   Obj([widgets |->
                                            Arr(remainingWidgets(
                                                    P(currentData.value, "widgets").a,
                                                    1, widgetId, <<>>)),
                                        metadata |-> touchedMetadata(currentData.value,
                                                                     now)])))
             ELSE artifact.content,
         metadata |-> [artifact.metadata EXCEPT
                          !.widgets = Arr(remainingWidgets(artifact.metadata.widgets.a,
                                                           1, widgetId, <<>>)),
                          !.lastModified = Str(now)]]

\* case 'data-dashboardThemeChange': the data is the theme itself
onDashboardThemeChange(theme, artifact, now) ==
    LET currentData == currentDataOf(artifact)
    IN  [content |->
             IF currentData.ok
             THEN stringify(spread(currentData.value,
                                   Obj([metadata |->
                                            spread(P(currentData.value, "metadata"),
                                                   Obj([theme |-> theme,
                                                        lastModified |-> Str(now)]))])))
             ELSE artifact.content,
         metadata |-> [artifact.metadata EXCEPT !.theme = theme,
                                                !.lastModified = Str(now)]]

\* case 'data-dashboardReset'
onDashboardReset(data, artifact, now) ==
    IF ~parses(data)
    THEN artifact
    ELSE LET resetData == parse(data)
         IN  [content |-> stringify(resetData),
              metadata |-> [layout |-> P(resetData, "layout"),
                            widgets |-> P(resetData, "widgets"),
                            theme |-> P(P(resetData, "metadata"), "theme"),
                            lastModified |-> Str(now)]]

----------------------------------------------------------------------------
(* Stream driver: the generator writes candidates, the artifact handles    *)
(* them and the parts other producers send.                                *)

MaxStreamWidgets == 2

MaxStreamParts == 3

\* grids of 2 x 2 and of 1 x 1 cells: inside the ranges of DashboardSchema
StreamLayouts ==
    {docLayout(Num(n), Num(n), docCell(Num(DefaultCellWidth), Num(DefaultCellHeight))) :
        n \in 1..2}

\* widgets inside the ranges of DashboardSchema: the second covers the
\* cell of the third, and both reach beyond a grid of one column
StreamWidgets ==
    {docWidget(Str("a"), 0, 0, 1, 1), docWidget(Str("a"), 0, 0, 2, 1),
     docWidget(Str("b"), 1, 0, 1, 1)}

StreamWidgetLists ==
    UNION {[1..n -> StreamWidgets] : n \in 0..MaxStreamWidgets}

\* objects of the generator's stream: whole ones, and one that has no
\* widgets yet
GeneratedObjects ==
    {Obj([layout |-> layout, widgets |-> Arr(widgets),
          metadata |-> Obj([theme |-> Str("dark"), title |-> Str(""),
                            description |-> Str("Q1")])]) :
        layout \in StreamLayouts, widgets \in StreamWidgetLists}
    \cup {Obj([layout |-> CHOOSE layout \in StreamLayouts : TRUE])}

\* the documents onUpdateDocument is given: a dashboard, no content, a
\* content that is no JSON
UpdatedContents ==
    {stringify(dashboardValue(Str("1.0"), CHOOSE layout \in StreamLayouts : TRUE,
                              Arr(<<>>), fullMetadata)),
     emptyContent, malformedText}

\* onCreateDocument or onUpdateDocument was called; the artifact shows the
\* content of the document, which a new document does not have yet
StreamInit ==
    /\ \/ /\ dpc = "generating"
          /\ dText = emptyContent
          /\ dOut = [metadata |-> initialMetadata(Now), document |-> Undefined,
                     draftContent |-> emptyContent, parts |-> 0]
       \/ /\ dpc = "updating"
          /\ \E content \in UpdatedContents :
                /\ dText = content
                /\ dOut = [metadata |-> initialMetadata(Now),
                           document |-> [content |-> content, title |-> Str("Sales")],
                           draftContent |-> emptyContent, parts |-> 0]
    /\ dData = <<>>
    /\ CodecIdle
    /\ LayoutIdle

artifactNow == [content |-> dText, metadata |-> dOut.metadata]

\* the artifact after onStreamPart returned
Handled(artifact) ==
    /\ dText' = artifact.content
    /\ dOut' = [dOut EXCEPT !.metadata = artifact.metadata, !.parts = @ + 1]

\* the parts sent so far: those handled and those still to be handled
PartsSent == dOut.parts + Len(dData)

\* dataStream.write({ type: 'data-dashboardDelta', data: content }) and
\* draftContent = content
Written(content) ==
    /\ dData' = Append(dData, [type |-> "data-dashboardDelta", data |-> content])
    /\ dOut' = [dOut EXCEPT !.draftContent = content]

\* one round of the loop of onCreateDocument; the write does not wait for
\* the artifact
GenerateDelta ==
    /\ dpc = "generating"
    /\ PartsSent < MaxStreamParts
    /\ \E object \in GeneratedObjects :
          LET generated == generatedContent(object, Now)
          IN  IF generated.ok
              THEN Written(generated.value)
              ELSE UNCHANGED <<dData, dOut>>
    /\ UNCHANGED <<dpc, dText, codecVars, layoutVars>>

\* the end of onCreateDocument: the draft, or the default, is returned
ReturnDraft ==
    /\ dpc = "generating"
    /\ \E title \in {Str(""), Str("Sales")} :
          IF dOut.draftContent = emptyContent
          THEN Written(stringify(defaultDashboard(title, Now)))
          ELSE UNCHANGED <<dData, dOut>>
    /\ dpc' = "returned"
    /\ UNCHANGED <<dText, codecVars, layoutVars>>

\* JSON.parse of the document throws at the start of onUpdateDocument: the
\* catch block writes the fallback and the handler returns it
UpdateUnparsed ==
    /\ dpc = "updating"
    /\ ~currentDashboardOf(dOut.document).ok
    /\ Written(stringify(fallbackDashboard(dOut.document.title, Now)))
    /\ dpc' = "returned"
    /\ UNCHANGED <<dText, codecVars, layoutVars>>

\* one round of the loop of onUpdateDocument; a TypeError ends the loop in
\* the catch block, which writes the fallback, and the handler returns it
UpdateDelta ==
    /\ dpc = "updating"
    /\ currentDashboardOf(dOut.document).ok
    /\ PartsSent < MaxStreamParts
    /\ \E object \in GeneratedObjects :
          LET updated == updatedContent(currentDashboardOf(dOut.document).value,
                                        object, Now)
          IN  CASE updated.ok ->
                       /\ Written(updated.value)
                       /\ UNCHANGED dpc
                [] updated = None ->
                       UNCHANGED <<dpc, dData, dOut>>
                [] OTHER ->
                       /\ Written(stringify(fallbackDashboard(dOut.document.title,
                                                              Now)))
                       /\ dpc' = "returned"
    /\ UNCHANGED <<dText, codecVars, layoutVars>>

\* the stream of onUpdateDocument ends: the draft is returned, '' when no
\* whole object came
ReturnUpdatedDraft ==
    /\ dpc = "updating"
    /\ currentDashboardOf(dOut.document).ok
    /\ dpc' = "returned"
    /\ UNCHANGED <<dData, dText, dOut, codecVars, layoutVars>>

\* onStreamPart on the oldest part the generator wrote
StreamPartDelta ==
    /\ dData # <<>>
    /\ Handled(onDashboardDelta(Head(dData).data, artifactNow, Now))
    /\ dData' = Tail(dData)
    /\ UNCHANGED <<dpc, codecVars, layoutVars>>

StreamPartLayoutChange ==
    /\ PartsSent < MaxStreamParts
    /\ \E layout \in StreamLayouts :
          Handled(onDashboardLayoutChange(stringify(layout), artifactNow, Now))
    /\ UNCHANGED <<dpc, dData, codecVars, layoutVars>>

StreamPartWidgetAdd ==
    /\ PartsSent < MaxStreamParts
    /\ Len(dOut.metadata.widgets.a) < MaxStreamWidgets
    /\ \E widget \in StreamWidgets :
          Handled(onDashboardWidgetAdd(stringify(widget), artifactNow, Now))
    /\ UNCHANGED <<dpc, dData, codecVars, layoutVars>>

StreamPartWidgetUpdate ==
    /\ PartsSent < MaxStreamParts
    /\ \E id \in {"a", "b"}, column \in {0, 1} :
          Handled(onDashboardWidgetUpdate(
                      stringify(Obj([id |-> Str(id),
                                     position |-> Obj([column |-> Num(column),
                                                       row |-> Num(0)])])),
                      artifactNow, Now))
    /\ UNCHANGED <<dpc, dData, codecVars, layoutVars>>

StreamPartWidgetRemove ==
    /\ PartsSent < MaxStreamParts
    /\ \E id \in {"a", "b"} :
          Handled(onDashboardWidgetRemove(Str(id), artifactNow, Now))
    /\ UNCHANGED <<dpc, dData, codecVars, layoutVars>>

StreamPartThemeChange ==
    /\ PartsSent < MaxStreamParts
    /\ Handled(onDashboardThemeChange(Str("light"), artifactNow, Now))
    /\ UNCHANGED <<dpc, dData, codecVars, layoutVars>>

StreamPartReset ==
    /\ PartsSent < MaxStreamParts
    /\ \E layout \in StreamLayouts, widgets \in StreamWidgetLists :
          Handled(onDashboardReset(
                      stringify(dashboardValue(Str("1.0"), layout, Arr(widgets),
                                               fullMetadata)),
                      artifactNow, Now))
    /\ UNCHANGED <<dpc, dData, codecVars, layoutVars>>

StreamNext ==
    \/ GenerateDelta
    \/ ReturnDraft
    \/ UpdateUnparsed
    \/ UpdateDelta
    \/ ReturnUpdatedDraft
    \/ StreamPartDelta
    \/ StreamPartLayoutChange
    \/ StreamPartWidgetAdd
    \/ StreamPartWidgetUpdate
    \/ StreamPartWidgetRemove
    \/ StreamPartThemeChange
    \/ StreamPartReset

SpecStream == StreamInit /\ [][StreamNext]_vars

----------------------------------------------------------------------------
(* Resize driver: a caller holds a valid dashboard and keeps calling       *)
(* resizeGrid on the dashboard the last call returned.                     *)

MaxResizeWidgets == 2

MaxResizes == 4

\* widget values: the first cell, an inner one and the last of a full grid
ResizePlaces == {0, 3, MaxDim - 1}

ResizeSizes ==
    {[width |-> 1, height |-> 1],
     [width |-> 3, height |-> 1],
     [width |-> 1, height |-> 2],
     [width |-> MaxWidgetSize, height |-> 1]}

\* cell sizes in range: the default one and the two ends of the range
ResizeCells ==
    {defaultLayout.cellSize, [width |-> MinCell, height |-> MaxCell]}

ResizeInit ==
    /\ \E n \in 0..MaxResizeWidgets, layout \in StartLayouts, cellSize \in ResizeCells :
          /\ positions \in [1..n -> [column : ResizePlaces, row : ResizePlaces]]
          /\ sizes \in [1..n -> ResizeSizes]
          /\ \A i \in 1..n :
                isValidWidgetPlacement([position |-> positions[i], size |-> sizes[i]],
                                       layout)
          /\ doc = [version |-> "1.0",
                    layout |-> [layout EXCEPT !.cellSize = cellSize],
                    widgets |-> [i \in 1..n |->
                                   [id |-> WidgetIds[i], type |-> "text",
                                    position |-> i, size |-> i,
                                    content |-> [text |-> WidgetIds[i]],
                                    config |-> [order |-> i]]],
                    metadata |-> [createdAt |-> 0, lastModified |-> 0,
                                  theme |-> "default", title |-> "New Dashboard"]]
          /\ snapshot = [start |-> deref(doc, positions, sizes)]
    /\ ret = None
    /\ pc = "idle"
    /\ clock = 0
    /\ CodecIdle
    /\ DocIdle

\* resizeGrid(dashboard, direction), new Date() reading clock + 1; snapshot
\* keeps the dashboard the caller started with
ResizeGridAgain ==
    /\ pc = "idle"
    /\ clock < MaxResizes
    /\ \E direction \in Directions :
          LET call == resizeGrid(doc, direction, clock + 1, positions, sizes)
          IN  /\ ret' = Ok(call.dashboard)
              /\ positions' = call.positions
              /\ sizes' = call.sizes
    /\ pc' = "returned"
    /\ clock' = clock + 1
    /\ UNCHANGED <<doc, snapshot, codecVars, docVars>>

\* the caller goes on with the dashboard it got back
ContinueWithResult ==
    /\ pc = "returned"
    /\ doc' = ret.value
    /\ ret' = None
    /\ pc' = "idle"
    /\ UNCHANGED <<positions, sizes, clock, snapshot, codecVars, docVars>>

ResizeNext ==
    \/ ResizeGridAgain
    \/ ContinueWithResult

SpecResize == ResizeInit /\ [][ResizeNext]_vars

----------------------------------------------------------------------------
(* Preview driver: a caller asks getAffectedWidgets what a proposed layout *)
(* would do to its widgets and then applies the same proposal with         *)
(* updateDashboardLayout.                                                  *)

MaxPreviewWidgets == 2

\* widget values: the first cell, an inner one, and the cell after the last
\* of a full grid
PreviewPlaces == {0, 5, MaxDim}

\* sizes inside [1,6]
PreviewSizes ==
    {[width |-> 1, height |-> 1],
     [width |-> 3, height |-> 1],
     [width |-> MaxWidgetSize, height |-> 2]}

\* dimensions proposed: below, inside, at the end of and above the range
PreviewDims == {0, DefaultColumns, MaxDim, MaxDim + 1}

PreviewInit ==
    /\ \E n \in 0..MaxPreviewWidgets, layout \in StartLayouts :
          /\ positions \in [1..n -> [column : PreviewPlaces, row : PreviewPlaces]]
          /\ sizes \in [1..n -> PreviewSizes]
          /\ doc = [version |-> "1.0",
                    layout |-> layout,
                    widgets |-> [i \in 1..n |->
                                   [id |-> WidgetIds[i], type |-> "text",
                                    position |-> i, size |-> i,
                                    content |-> [text |-> WidgetIds[i]],
                                    config |-> [order |-> i]]],
                    metadata |-> [createdAt |-> 0, lastModified |-> 0,
                                  theme |-> "default", title |-> "New Dashboard"]]
    /\ ret = None
    /\ pc = "idle"
    /\ clock = 1
    /\ snapshot = None
    /\ CodecIdle
    /\ DocIdle

\* getAffectedWidgets(dashboard.widgets, dashboard.layout, newLayout)
PreviewCall ==
    /\ pc = "idle"
    /\ \E newLayout \in [columns : PreviewDims, rows : PreviewDims,
                         cellSize : {defaultLayout.cellSize}] :
          /\ ret' = Ok(getAffectedWidgets(doc.widgets, doc.layout, newLayout,
                                          positions, sizes))
          /\ snapshot' = [before |-> deref(doc, positions, sizes),
                          request |-> [name |-> "getAffectedWidgets",
                                       newLayout |-> newLayout]]
    /\ pc' = "previewed"
    /\ UNCHANGED <<positions, sizes, doc, clock, codecVars, docVars>>

\* updateDashboardLayout(dashboard, newLayout) with the layout just
\* previewed; snapshot keeps what the preview returned
ApplyPreviewed ==
    /\ pc = "previewed"
    /\ LET call == updateDashboardLayout(doc, snapshot.request.newLayout, clock + 1,
                                         positions, sizes)
       IN  /\ ret' = Ok(call.dashboard)
           /\ positions' = call.positions
           /\ sizes' = call.sizes
           /\ snapshot' = [before |-> snapshot.before,
                           request |-> [name |-> "updateDashboardLayout",
                                        newLayout |-> snapshot.request.newLayout],
                           preview |-> ret.value]
    /\ pc' = "applied"
    /\ clock' = clock + 1
    /\ UNCHANGED <<doc, codecVars, docVars>>

PreviewNext ==
    \/ PreviewCall
    \/ ApplyPreviewed

SpecPreview == PreviewInit /\ [][PreviewNext]_vars

----------------------------------------------------------------------------
(* What the claims say about a document, stated on the document itself     *)

IsText(x) == x.t = "string"

IsInteger(x) == x.t = "number" /\ ~IsNaN(x)

IsRecord(x) == x.t = "object"

Field(x, k) == IF IsRecord(x) /\ k \in DOMAIN x.o THEN x.o[k] ELSE Undefined

Between(x, lo, hi) == IsInteger(x) /\ lo <= x.n /\ x.n <= hi

Clamped(n, lo, hi) == IF n < lo THEN lo ELSE IF n > hi THEN hi ELSE n

\* the widget has an id and integer position and size
IsPlacedWidget(w) ==
    /\ IsRecord(w)
    /\ IsText(Field(w, "id"))
    /\ IsInteger(Field(Field(w, "position"), "column"))
    /\ IsInteger(Field(Field(w, "position"), "row"))
    /\ IsInteger(Field(Field(w, "size"), "width"))
    /\ IsInteger(Field(Field(w, "size"), "height"))

\* the cells of the half-open rectangle [column, column+width) x [row, row+height)
Footprint(w) ==
    LET column == Field(Field(w, "position"), "column").n
        row == Field(Field(w, "position"), "row").n
        width == Field(Field(w, "size"), "width").n
        height == Field(Field(w, "size"), "height").n
    IN  (column..(column + width - 1)) \X (row..(row + height - 1))

GridCells(layout) ==
    (0..(Field(layout, "columns").n - 1)) \X (0..(Field(layout, "rows").n - 1))

Intersect(w1, w2) == Footprint(w1) \cap Footprint(w2) # {}

\* version, layout, widgets, metadata are there with the right type, the layout
\* has integer columns and rows, every widget has id, type, position and size
WellShaped(data) ==
    /\ IsRecord(data)
    /\ IsText(Field(data, "version")) /\ Field(data, "version").s # ""
    /\ IsRecord(Field(data, "layout"))
    /\ IsInteger(Field(Field(data, "layout"), "columns"))
    /\ IsInteger(Field(Field(data, "layout"), "rows"))
    /\ Field(data, "widgets").t = "array"
    /\ IsRecord(Field(data, "metadata"))
    /\ \A i \in DOMAIN Field(data, "widgets").a :
          LET w == Field(data, "widgets").a[i]
          IN  /\ IsPlacedWidget(w)
              /\ Field(w, "id").s # ""
              /\ IsText(Field(w, "type")) /\ Field(w, "type").s # ""

WidgetsOf(data) == Field(data, "widgets").a

AllInside(data) ==
    \A i \in DOMAIN WidgetsOf(data) :
        Footprint(WidgetsOf(data)[i]) \subseteq GridCells(Field(data, "layout"))

\* index pairs i < j of widgets with distinct ids and intersecting footprints
OverlappingPairs(data) ==
    {p \in (DOMAIN WidgetsOf(data)) \X (DOMAIN WidgetsOf(data)) :
        /\ p[1] < p[2]
        /\ Field(WidgetsOf(data)[p[1]], "id") # Field(WidgetsOf(data)[p[2]], "id")
        /\ Intersect(WidgetsOf(data)[p[1]], WidgetsOf(data)[p[2]])}

LayoutInRange(layout) ==
    /\ Between(Field(layout, "columns"), 1, 12)
    /\ Between(Field(layout, "rows"), 1, 12)
    /\ Between(Field(Field(layout, "cellSize"), "width"), 100, 500)
    /\ Between(Field(Field(layout, "cellSize"), "height"), 100, 500)

\* all data-model invariants of spec section 3
SatisfiesInvariants(data) ==
    /\ WellShaped(data)
    /\ LayoutInRange(Field(data, "layout"))
    /\ AllInside(data)
    /\ \A i \in DOMAIN WidgetsOf(data) :
          /\ Between(Field(Field(WidgetsOf(data)[i], "size"), "width"), 1, 6)
          /\ Between(Field(Field(WidgetsOf(data)[i], "size"), "height"), 1, 6)
    /\ \A i, j \in DOMAIN WidgetsOf(data) :
          i # j => /\ Field(WidgetsOf(data)[i], "id") # Field(WidgetsOf(data)[j], "id")
                   /\ ~Intersect(WidgetsOf(data)[i], WidgetsOf(data)[j])
    /\ IsText(Field(Field(data, "metadata"), "createdAt"))
    /\ IsText(Field(Field(data, "metadata"), "lastModified"))
    /\ IsText(Field(Field(data, "metadata"), "theme"))

----------------------------------------------------------------------------
(* Claims about the normalization layer *)

\* C3: for every dashboard d that satisfies all data-model invariants, also
\* one whose metadata has extension keys or lacks title/description,
\* deserializeDashboard(serializeDashboard(d)) equals d field for field.
C3_RoundTrip ==
    (dpc = "deserialized" /\ SatisfiesInvariants(dData)) =>
        (dOut.ok /\ dOut.value = dData)

\* the layout `out` is the componentwise clamp of the integer fields of `given`
ClampsIntegers(given, out) ==
    /\ IsInteger(Field(given, "columns")) =>
           Field(out, "columns") = Num(Clamped(Field(given, "columns").n, 1, 12))
    /\ IsInteger(Field(given, "rows")) =>
           Field(out, "rows") = Num(Clamped(Field(given, "rows").n, 1, 12))
    /\ IsInteger(Field(Field(given, "cellSize"), "width")) =>
           Field(Field(out, "cellSize"), "width")
               = Num(Clamped(Field(Field(given, "cellSize"), "width").n, 100, 500))
    /\ IsInteger(Field(Field(given, "cellSize"), "height")) =>
           Field(Field(out, "cellSize"), "height")
               = Num(Clamped(Field(Field(given, "cellSize"), "height").n, 100, 500))

\* C4: layout normalization clamps and never defaults an integer: for every
\* integer v deserializeLayout and the layout step of deserializeDashboard
\* give columns and rows min(12, max(1, v)) and cell width and height
\* min(500, max(100, v)); columns 99 gives 12 and rows 0 gives 1.
C4_LayoutClamps ==
    /\ dpc = "layoutDeserialized" =>
           (dOut.ok /\ ClampsIntegers(Field(dData, "layout"), dOut.value))
    /\ (dpc = "deserialized" /\ dOut.ok) =>
           ClampsIntegers(Field(dData, "layout"), Field(dOut.value, "layout"))

\* C5: validateDashboardJSON runs the bounds and overlap validation: on a
\* well-shaped document with a widget outside the layout, or with two widgets
\* of distinct ids whose footprints intersect, it returns isValid = false and
\* a non-empty errors list; isValid is true exactly when errors is empty.
C5_ValidateJSONGeometry ==
    dpc = "jsonValidated" =>
        /\ dOut.isValid <=> (dOut.errors = <<>>)
        /\ (WellShaped(dData) /\ (~AllInside(dData) \/ OverlappingPairs(dData) # {})) =>
               (~dOut.isValid /\ dOut.errors # <<>>)

----------------------------------------------------------------------------
(* Claims about validateDashboardData *)

\* C6: whenever validateDashboardData returns true, no two distinct entries
\* of the widgets list have intersecting footprints, also when two entries
\* carry the same id.
C6_AcceptedDisjoint ==
    (dpc = "validated" /\ dOut.ok) =>
        \A i, j \in DOMAIN WidgetsOf(dData) :
            i < j => ~Intersect(WidgetsOf(dData)[i], WidgetsOf(dData)[j])

\* the pair of OverlappingPairs that comes first in list order
FirstOverlappingPair(data) ==
    CHOOSE p \in OverlappingPairs(data) :
        \A q \in OverlappingPairs(data) :
            p[1] < q[1] \/ (p[1] = q[1] /\ p[2] <= q[2])

\* C7: on a dashboard (a non-empty version string, a layout, widgets with
\* non-empty string ids) whose widgets all lie inside the layout and in which
\* some pair with distinct ids overlaps, validateDashboardData fails with the
\* error naming the two ids of the first overlapping pair (i, j), i < j, in
\* list order; so two widgets with different ids at the same position fail.
C7_FirstOverlapReported ==
    (/\ dpc = "validated"
     /\ WellShaped(dData)
     /\ AllInside(dData)
     /\ OverlappingPairs(dData) # {}) =>
        LET p == FirstOverlappingPair(dData)
        IN  /\ ~dOut.ok
            /\ dOut.error = <<"Widgets ", Field(WidgetsOf(dData)[p[1]], "id").s, " and ",
                              Field(WidgetsOf(dData)[p[2]], "id").s, " overlap">>

\* widgets a, b, c where a and b do not overlap and c overlaps both
C7_Witness ==
    /\ dpc = "validated"
    /\ WellShaped(dData)
    /\ AllInside(dData)
    /\ Len(WidgetsOf(dData)) = 3
    /\ OverlappingPairs(dData) = {<<1, 3>>, <<2, 3>>}
    /\ ~dOut.ok
    /\ dOut.error = <<"Widgets ", Field(WidgetsOf(dData)[1], "id").s, " and ",
                      Field(WidgetsOf(dData)[3], "id").s, " overlap">>

\* an integer outside [lo, hi]
OutOfRange(x, lo, hi) == IsInteger(x) /\ (x.n < lo \/ x.n > hi)

\* C8: validateDashboardData succeeds only on dashboards whose version,
\* layout, widgets and metadata are present with the right type and whose
\* layout fields are in range: it fails when metadata is no object, when
\* columns or rows are outside [1,12] and when the cell width or height is
\* outside [100,500].
C8_AcceptedShapeAndRanges ==
    (dpc = "validated" /\ dOut.ok) =>
        /\ IsText(Field(dData, "version"))
        /\ IsRecord(Field(dData, "layout"))
        /\ Field(dData, "widgets").t = "array"
        /\ IsRecord(Field(dData, "metadata"))
        /\ ~OutOfRange(Field(Field(dData, "layout"), "columns"), 1, 12)
        /\ ~OutOfRange(Field(Field(dData, "layout"), "rows"), 1, 12)
        /\ ~OutOfRange(Field(Field(Field(dData, "layout"), "cellSize"), "width"), 100, 500)
        /\ ~OutOfRange(Field(Field(Field(dData, "layout"), "cellSize"), "height"), 100, 500)

----------------------------------------------------------------------------
(* Overlap driver: the doWidgetsOverlap calls of utils.test.ts, on two     *)
(* widgets with integer positions and sizes of at least 1                  *)

MaxOverlapCoord == 3

MaxOverlapSize == 3

\* { ...testWidget, id, position } with a size of its own
testWidget(id, column, row, width, height) ==
    [id |-> id,
     position |-> [column |-> column, row |-> row],
     size |-> [width |-> width, height |-> height]]

OverlapInit ==
    /\ cpc = "start"
    /\ \E id2 \in {"test-widget", "test-widget-2"} :
       \E c1, r1, c2, r2 \in 0..MaxOverlapCoord :
       \E w1, h1, w2, h2 \in 1..MaxOverlapSize :
           cIn = [kind |-> "widgets",
                  widget1 |-> testWidget("test-widget", c1, r1, w1, h1),
                  widget2 |-> testWidget(id2, c2, r2, w2, h2)]
    /\ cMid = None
    /\ cOut = None
    /\ LayoutIdle
    /\ DocIdle

\* doWidgetsOverlap(widget1, widget2)
OverlapCall ==
    /\ cpc = "start"
    /\ cIn.kind = "widgets"
    /\ cMid' = Ok(doWidgetsOverlap(cIn.widget1, cIn.widget2))
    /\ cpc' = "overlap"
    /\ UNCHANGED <<cIn, cOut, layoutVars, docVars>>

\* doWidgetsOverlap(widget2, widget1)
OverlapSwappedCall ==
    /\ cpc = "overlap"
    /\ cOut' = Ok(doWidgetsOverlap(cIn.widget2, cIn.widget1))
    /\ cpc' = "overlapSwapped"
    /\ UNCHANGED <<cIn, cMid, layoutVars, docVars>>

OverlapNext == OverlapCall \/ OverlapSwappedCall

SpecOverlap == OverlapInit /\ [][OverlapNext]_vars

\* the half-open intervals [p1, p1 + s1) and [p2, p2 + s2) intersect
IntervalsIntersect(p1, s1, p2, s2) ==
    \E x \in p1..(p1 + s1 - 1) : x >= p2 /\ x < p2 + s2

\* the footprints of two widgets intersect on both axes
FootprintsIntersect(a, b) ==
    /\ IntervalsIntersect(a.position.column, a.size.width, b.position.column, b.size.width)
    /\ IntervalsIntersect(a.position.row, a.size.height, b.position.row, b.size.height)

\* C12: for two widgets with size >= 1 on both axes doWidgetsOverlap(a, b) is
\* true exactly when the ids differ and the half-open intervals
\* [column, column + width) and [row, row + height) both intersect; it is
\* symmetric and false, without error, when the ids are equal; a 2x1 widget
\* at (0,0) overlaps a widget at (1,0) and not one at (2,0).
C12_OverlapIffIntersect ==
    /\ (cpc \in {"overlap", "overlapSwapped"} /\ cIn.kind = "widgets") =>
           /\ cMid.ok
           /\ cMid.value <=> (/\ cIn.widget1.id # cIn.widget2.id
                              /\ FootprintsIntersect(cIn.widget1, cIn.widget2))
           /\ (/\ cIn.widget1 = testWidget("test-widget", 0, 0, 2, 1)
               /\ cIn.widget2.id # "test-widget"
               /\ cIn.widget2.position = [column |-> 1, row |-> 0]) => cMid.value
           /\ (/\ cIn.widget1 = testWidget("test-widget", 0, 0, 2, 1)
               /\ cIn.widget2.position = [column |-> 2, row |-> 0]) => ~cMid.value
    /\ (cpc = "overlapSwapped" /\ cIn.kind = "widgets") =>
           (cOut.ok /\ cOut.value = cMid.value)

\* the two widgets of the test: 2x1 at (0,0) and 2x1 at (1,0), both orders
C12_Witness ==
    /\ cpc = "overlapSwapped"
    /\ cIn.kind = "widgets"
    /\ cIn.widget1 = testWidget("test-widget", 0, 0, 2, 1)
    /\ cIn.widget2 = testWidget("test-widget-2", 1, 0, 2, 1)
    /\ cMid = Ok(TRUE)
    /\ cOut = Ok(TRUE)

----------------------------------------------------------------------------
(* Claims about the deserializers, stated on the parsed text *)

\* every required field of the document is there with its type
HasSchema(data) ==
    /\ IsRecord(data)
    /\ IsText(Field(data, "version"))
    /\ IsRecord(Field(data, "layout"))
    /\ Field(data, "widgets").t = "array"
    /\ IsRecord(Field(data, "metadata"))
    /\ \A i \in DOMAIN Field(data, "widgets").a :
          LET w == Field(data, "widgets").a[i]
          IN  /\ IsRecord(w)
              /\ IsText(Field(w, "id"))
              /\ IsText(Field(w, "type"))
              /\ IsRecord(Field(w, "position"))
              /\ IsRecord(Field(w, "size"))

\* version and every widget id and type are not the empty string
HasNonEmptyTexts(data) ==
    /\ Field(data, "version").s # ""
    /\ \A i \in DOMAIN Field(data, "widgets").a :
          /\ Field(Field(data, "widgets").a[i], "id").s # ""
          /\ Field(Field(data, "widgets").a[i], "type").s # ""

\* every numeric field of a returned dashboard is in its range
AllInRange(out) ==
    /\ LayoutInRange(Field(out, "layout"))
    /\ \A i \in DOMAIN Field(out, "widgets").a :
          LET w == Field(out, "widgets").a[i]
          IN  /\ IsInteger(Field(Field(w, "position"), "column"))
              /\ Field(Field(w, "position"), "column").n >= 0
              /\ IsInteger(Field(Field(w, "position"), "row"))
              /\ Field(Field(w, "position"), "row").n >= 0
              /\ Between(Field(Field(w, "size"), "width"), 1, 6)
              /\ Between(Field(Field(w, "size"), "height"), 1, 6)

\* C13 as stated: for every parsed document in which version is a string,
\* layout and metadata are objects, widgets is an array and every widget has
\* a string id, a string type, an object position and an object size,
\* deserializeDashboard succeeds and every numeric field of the result is in
\* range.
C13_AnyStringsAccepted ==
    (dpc = "dashboardRead" /\ parses(dText) /\ HasSchema(parse(dText))) =>
        (dOut.ok /\ AllInRange(dOut.value))

\* C13, amended: the same for documents whose version and whose widget ids
\* and types are non-empty strings: deserializeDashboard succeeds whatever
\* the numeric values are, with columns and rows in [1,12], cell width and
\* height in [100,500], widget column and row >= 0 and widget width and
\* height in [1,6].
C13_ShapedAccepted ==
    (/\ dpc = "dashboardRead"
     /\ parses(dText)
     /\ HasSchema(parse(dText))
     /\ HasNonEmptyTexts(parse(dText))) =>
        (dOut.ok /\ AllInRange(dOut.value))

\* a document with a widget at column -1 of height 7 was read: column 0, height 6
C13_Witness ==
    /\ dpc = "dashboardRead"
    /\ parses(dText)
    /\ HasSchema(parse(dText))
    /\ HasNonEmptyTexts(parse(dText))
    /\ Len(Field(parse(dText), "widgets").a) = 2
    /\ Field(parse(dText), "widgets").a[2] =
           parsedWidget(Str("a"), Str("text"),
                        Obj([column |-> Num(-1), row |-> Num(2)]),
                        Obj([width |-> Num(0), height |-> Num(7)]))
    /\ dOut.ok
    /\ Field(Field(dOut.value, "widgets").a[2], "position")
           = Obj([column |-> Num(0), row |-> Num(2)])
    /\ Field(Field(dOut.value, "widgets").a[2], "size")
           = Obj([width |-> Num(1), height |-> Num(6)])

\* a string other than the empty one
IsFilledText(x) == IsText(x) /\ x.s # ""

\* the messages of the top-level fields that are absent, empty or of another type
TopLevelFaults(data) ==
    {<<"Invalid dashboard data: must be an object">> : x \in {0} \ {y \in {0} : IsRecord(data)}}
    \cup {<<"Invalid dashboard data: missing or invalid version">> :
             x \in {0} \ {y \in {0} : IsFilledText(Field(data, "version"))}}
    \cup {<<"Invalid dashboard data: missing or invalid layout">> :
             x \in {0} \ {y \in {0} : IsRecord(Field(data, "layout"))}}
    \cup {<<"Invalid dashboard data: widgets must be an array">> :
             x \in {0} \ {y \in {0} : Field(data, "widgets").t = "array"}}
    \cup {<<"Invalid dashboard data: missing or invalid metadata">> :
             x \in {0} \ {y \in {0} : IsRecord(Field(data, "metadata"))}}

\* the messages of the fields of widget w, at the given index, that are absent,
\* empty or of another type
WidgetFaults(w, index) ==
    LET at == <<"Invalid widget at index ", ToString(index)>>
    IN  {at \o <<": must be an object">> : x \in {0} \ {y \in {0} : IsRecord(w)}}
        \cup {at \o <<": missing or invalid id">> :
                 x \in {0} \ {y \in {0} : IsFilledText(Field(w, "id"))}}
        \cup {at \o <<": missing or invalid type">> :
                 x \in {0} \ {y \in {0} : IsFilledText(Field(w, "type"))}}
        \cup {at \o <<": missing or invalid position">> :
                 x \in {0} \ {y \in {0} : IsRecord(Field(w, "position"))}}
        \cup {at \o <<": missing or invalid size">> :
                 x \in {0} \ {y \in {0} : IsRecord(Field(w, "size"))}}

\* the messages that identify an offending field of the document: those of
\* the top level, or else those of the first widget that has a fault
SchemaFaults(data) ==
    IF TopLevelFaults(data) # {}
    THEN TopLevelFaults(data)
    ELSE LET ws == Field(data, "widgets").a
             faulty == {i \in DOMAIN ws : WidgetFaults(ws[i], i - 1) # {}}
         IN  IF faulty = {}
             THEN {}
             ELSE LET first == CHOOSE i \in faulty : \A j \in faulty : i <= j
                  IN  WidgetFaults(ws[first], first - 1)

\* C14: deserializeDashboard fails whenever the text is not valid JSON or a
\* required field (version, layout, widgets, metadata; per widget id, type,
\* position, size) is absent or of the wrong type, and the message identifies
\* the offending field, with the widget index for a field of a widget; the
\* first widget that fails a check aborts the call.
C14_SchemaFaultsRejected ==
    dpc = "dashboardRead" =>
        /\ ~parses(dText) => ~dOut.ok
        /\ (parses(dText) /\ ~HasSchema(parse(dText))) =>
               /\ ~dOut.ok
               /\ \E fault \in SchemaFaults(parse(dText)) :
                      dOut.error = <<"Failed to deserialize dashboard: ">> \o fault

\* C15: the lenient deserializers fail only on a wrong top-level shape:
\* deserializeWidgets succeeds on every JSON array whatever its elements are
\* and fails exactly when the value is no array; deserializeLayout and
\* deserializeMetadata succeed on every JSON object and fail exactly when the
\* value is no object.
C15_LenientFailOnShapeOnly ==
    /\ (dpc = "widgetsRead" /\ parses(dText)) =>
           (dOut.ok <=> parse(dText).t = "array")
    /\ (dpc = "layoutRead" /\ parses(dText)) =>
           (dOut.ok <=> IsRecord(parse(dText)))
    /\ (dpc = "metadataRead" /\ parses(dText)) =>
           (dOut.ok <=> IsRecord(parse(dText)))

----------------------------------------------------------------------------
(* Claims about one migration, stated on the values before and after it *)

\* the widgets of the returned dashboard, read through their references
ReturnedWidgets == deref(ret.value, positions, sizes).widgets

\* the componentwise clamp of a layout
ClampedLayout(layout) ==
    [columns |-> Clamped(layout.columns, 1, 12),
     rows |-> Clamped(layout.rows, 1, 12),
     cellSize |-> [width |-> Clamped(layout.cellSize.width, 100, 500),
                   height |-> Clamped(layout.cellSize.height, 100, 500)]]

\* p' = max(0, B - s) if p >= B else p
MovedTo(p, s, B) == IF p >= B THEN (IF B - s > 0 THEN B - s ELSE 0) ELSE p

\* s' = max(1, B - p') if p' + s > B else s, then clamped to [1,6]
ResizedTo(p, s, B) ==
    LET moved == MovedTo(p, s, B)
        fitted == IF moved + s > B THEN (IF B - moved > 1 THEN B - moved ELSE 1) ELSE s
    IN  Clamped(fitted, 1, 6)

\* the widget w after a migration to the bounds of layout
MigratedWidget(w, layout) ==
    [w EXCEPT
        !.position = [column |-> MovedTo(w.position.column, w.size.width, layout.columns),
                      row |-> MovedTo(w.position.row, w.size.height, layout.rows)],
        !.size = [width |-> ResizedTo(w.position.column, w.size.width, layout.columns),
                  height |-> ResizedTo(w.position.row, w.size.height, layout.rows)]]

\* C16: updateDashboardLayout adjusts each widget per axis, independently of
\* the other widgets: p' = max(0, B - s) if p >= B else p; then
\* s' = max(1, B - p') if p' + s > B else s; then s' clamped to [1,6], with B
\* the clamped new bound. The size test uses the repositioned p': a 1x1 widget
\* at column 3, row 3 migrated to 2x2 ends at column 1, row 1 with size 1x1,
\* and a widget at column 5 of width 3 migrated to 4 columns ends at column 1
\* with width 3.
C16_PerAxisRule ==
    (pc = "returned" /\ snapshot.request.name = "updateDashboardLayout") =>
        LET bounds == ClampedLayout(snapshot.request.newLayout)
            before == snapshot.before.widgets
        IN  /\ ReturnedWidgets = [i \in DOMAIN before |-> MigratedWidget(before[i], bounds)]
            /\ \A i \in DOMAIN before :
                   /\ (/\ before[i].position = [column |-> 3, row |-> 3]
                       /\ before[i].size = [width |-> 1, height |-> 1]
                       /\ bounds.columns = 2
                       /\ bounds.rows = 2) =>
                          /\ ReturnedWidgets[i].position = [column |-> 1, row |-> 1]
                          /\ ReturnedWidgets[i].size = [width |-> 1, height |-> 1]
                   /\ (/\ before[i].position.column = 5
                       /\ before[i].size.width = 3
                       /\ bounds.columns = 4) =>
                          /\ ReturnedWidgets[i].position.column = 1
                          /\ ReturnedWidgets[i].size.width = 3

\* a 3x1 widget at column 5 and a 1x1 widget at column 3, row 3 were migrated
\* to 4 columns and 2 rows
C16_Witness ==
    /\ pc = "returned"
    /\ snapshot.request.name = "updateDashboardLayout"
    /\ snapshot.request.newLayout.columns = 4
    /\ snapshot.request.newLayout.rows = 2
    /\ Len(snapshot.before.widgets) = 2
    /\ snapshot.before.widgets[1].position = [column |-> 5, row |-> 0]
    /\ snapshot.before.widgets[1].size = [width |-> 3, height |-> 1]
    /\ snapshot.before.widgets[2].position = [column |-> 3, row |-> 3]
    /\ snapshot.before.widgets[2].size = [width |-> 1, height |-> 1]
    /\ ReturnedWidgets[1].position = [column |-> 1, row |-> 0]
    /\ ReturnedWidgets[1].size = [width |-> 3, height |-> 1]
    /\ ReturnedWidgets[2].position = [column |-> 3, row |-> 1]
    /\ ReturnedWidgets[2].size = [width |-> 1, height |-> 1]

\* C17: for every proposed layout with integer fields, in range or not, the
\* layout of the dashboard returned by updateDashboardLayout is the
\* componentwise clamp of the proposal, columns and rows into [1,12], cell
\* width and height into [100,500]; so all four fields are in range.
C17_ReturnedLayoutClamped ==
    (pc = "returned" /\ snapshot.request.name = "updateDashboardLayout") =>
        /\ ret.value.layout = ClampedLayout(snapshot.request.newLayout)
        /\ ret.value.layout.columns \in 1..12
        /\ ret.value.layout.rows \in 1..12
        /\ ret.value.layout.cellSize.width \in 100..500
        /\ ret.value.layout.cellSize.height \in 100..500

\* a proposal with every field out of range was clamped
C17_Witness ==
    /\ pc = "returned"
    /\ snapshot.request.name = "updateDashboardLayout"
    /\ snapshot.request.newLayout =
           [columns |-> 13, rows |-> 0, cellSize |-> [width |-> 99, height |-> 501]]
    /\ ret.value.layout =
           [columns |-> 12, rows |-> 1, cellSize |-> [width |-> 100, height |-> 500]]

\* C18: updateDashboardLayout changes only layout, widgets and
\* metadata.lastModified: version, metadata.createdAt and every other metadata
\* field (theme, title, description, extension keys) of the result equal the
\* input's, and metadata.lastModified is the time read at the call.
C18_MetadataFrame ==
    (pc = "returned" /\ snapshot.request.name = "updateDashboardLayout") =>
        /\ DOMAIN ret.value = DOMAIN snapshot.before
        /\ ret.value.version = snapshot.before.version
        /\ DOMAIN ret.value.metadata = DOMAIN snapshot.before.metadata
        /\ \A k \in DOMAIN snapshot.before.metadata \ {"lastModified"} :
               ret.value.metadata[k] = snapshot.before.metadata[k]
        /\ ret.value.metadata.lastModified = clock

\* a dashboard created at 0 with an extension key was migrated at time 2
C18_Witness ==
    /\ pc = "returned"
    /\ snapshot.request.name = "updateDashboardLayout"
    /\ snapshot.before.metadata.lastModified = 0
    /\ snapshot.before.metadata.owner = "ann"
    /\ ret.value.layout # snapshot.before.layout
    /\ ret.value.metadata.createdAt = 0
    /\ ret.value.metadata.owner = "ann"
    /\ ret.value.metadata.lastModified = 2
    /\ clock = 2

\* the class of a widget under a new layout, as the claim states it
ClassOf(w, newLayout) ==
    IF w.position.column >= newLayout.columns \/ w.position.row >= newLayout.rows
    THEN "removed"
    ELSE IF \/ w.position.column + w.size.width > newLayout.columns
            \/ w.position.row + w.size.height > newLayout.rows
    THEN "affected"
    ELSE "unaffected"

\* the widgets of a returned list, read through their references
ListedWidgets(list) == [i \in DOMAIN list |-> derefWidget(list[i], positions, sizes)]

\* the widgets of ws that are of class c, in the order of ws
RECURSIVE OfClass(_, _, _)
OfClass(ws, c, newLayout) ==
    IF ws = <<>>
    THEN <<>>
    ELSE (IF ClassOf(Head(ws), newLayout) = c THEN <<Head(ws)>> ELSE <<>>)
             \o OfClass(Tail(ws), c, newLayout)

\* C19: getAffectedWidgets partitions the widget list: every input widget is
\* in exactly one of removed, affected, unaffected, in input order, and the
\* input is not modified. A widget is removed iff its column >= the new
\* columns or its row >= the new rows; otherwise affected iff column + width
\* or row + height exceeds the new bound; otherwise unaffected. The result
\* does not depend on currentLayout.
C19_AffectedPartition ==
    pc = "classified" =>
        LET before == snapshot.before.widgets
            newLayout == snapshot.request.newLayout
        IN  /\ \A c \in {"removed", "affected", "unaffected"} :
                   ListedWidgets(ret.value[c]) = OfClass(before, c, newLayout)
            /\ Len(ret.value.removed) + Len(ret.value.affected)
                   + Len(ret.value.unaffected) = Len(before)
            /\ deref(doc, positions, sizes) = snapshot.before
            /\ \A currentLayout \in StartLayouts :
                   getAffectedWidgets(doc.widgets, currentLayout, newLayout,
                                      positions, sizes) = ret.value

\* of two widgets the first starts outside the new grid and the second only
\* reaches outside it
C19_Witness ==
    /\ pc = "classified"
    /\ snapshot.request.newLayout.columns = 4
    /\ snapshot.request.newLayout.rows = 2
    /\ Len(snapshot.before.widgets) = 2
    /\ snapshot.before.widgets[1].position = [column |-> 5, row |-> 0]
    /\ snapshot.before.widgets[2].position = [column |-> 3, row |-> 0]
    /\ snapshot.before.widgets[2].size = [width |-> 3, height |-> 1]
    /\ ListedWidgets(ret.value.removed) = <<snapshot.before.widgets[1]>>
    /\ ListedWidgets(ret.value.affected) = <<snapshot.before.widgets[2]>>
    /\ ret.value.unaffected = <<>>

\* one dimension moved by one step towards hi or lo, staying where it is at the end
Nudged(n, step, lo, hi) ==
    IF n + step > hi \/ n + step < lo THEN n ELSE n + step

\* the layout the claim expects of resizeGrid
NudgedLayout(layout, direction) ==
    [columns |-> IF direction = "add-column" THEN Nudged(layout.columns, 1, 1, 12)
                 ELSE IF direction = "remove-column" THEN Nudged(layout.columns, -1, 1, 12)
                 ELSE layout.columns,
     rows |-> IF direction = "add-row" THEN Nudged(layout.rows, 1, 1, 12)
              ELSE IF direction = "remove-row" THEN Nudged(layout.rows, -1, 1, 12)
              ELSE layout.rows,
     cellSize |-> layout.cellSize]

\* C20: resizeGrid on a dashboard whose layout is in range changes exactly one
\* layout dimension by +1 or -1, saturating at 12 and at 1, leaves the other
\* dimension and cellSize unchanged, and returns exactly what
\* updateDashboardLayout returns for that layout.
C20_ResizeGridNudges ==
    (pc = "returned" /\ snapshot.request.name = "resizeGrid") =>
        LET nudged == NudgedLayout(snapshot.before.layout, snapshot.request.direction)
            heapBefore == [i \in DOMAIN doc.widgets |-> snapshot.before.widgets[i]]
            same == updateDashboardLayout(
                        doc, nudged, clock,
                        [i \in DOMAIN heapBefore |-> heapBefore[i].position],
                        [i \in DOMAIN heapBefore |-> heapBefore[i].size])
        IN  /\ ret.value.layout = nudged
            /\ ret.value = same.dashboard
            /\ positions = same.positions
            /\ sizes = same.sizes

\* remove-column on the 4x4 grid with a widget in the last column
C20_Witness ==
    /\ pc = "returned"
    /\ snapshot.request = [name |-> "resizeGrid", direction |-> "remove-column"]
    /\ snapshot.before.layout = defaultLayout
    /\ ret.value.layout = [defaultLayout EXCEPT !.columns = 3]
    /\ Len(snapshot.before.widgets) = 1
    /\ snapshot.before.widgets[1].position = [column |-> 3, row |-> 0]
    /\ snapshot.before.widgets[1].size = [width |-> 1, height |-> 1]
    /\ ReturnedWidgets[1].position = [column |-> 2, row |-> 0]

----------------------------------------------------------------------------
(* Claims about the factory *)

\* the 4x4 layout with 200x150 cells, as a document value
FactoryLayout == docLayout(Num(4), Num(4), docCell(Num(200), Num(150)))

\* C21: the factory documents satisfy all data-model invariants:
\* createSampleDashboard returns version "1.0", a 4x4 layout with 200x150
\* cells and four widgets with pairwise distinct ids, each footprint inside
\* the grid and no two footprints intersecting, so that validateDashboardData
\* accepts it; createDefaultDashboard returns the same layout with no
\* widgets; in both createdAt equals lastModified.
C21_FactoryDocumentsValid ==
    /\ dpc \in {"sampleCreated", "defaultCreated"} =>
           /\ dOut.ok
           /\ SatisfiesInvariants(dOut.value)
           /\ Field(dOut.value, "version") = Str("1.0")
           /\ Field(dOut.value, "layout") = FactoryLayout
           /\ Field(Field(dOut.value, "metadata"), "createdAt")
                  = Field(Field(dOut.value, "metadata"), "lastModified")
    /\ dpc = "sampleCreated" =>
           /\ Len(WidgetsOf(dOut.value)) = 4
           /\ AllInside(dOut.value)
           /\ \A i, j \in 1..4 :
                  i # j => /\ Field(WidgetsOf(dOut.value)[i], "id")
                                 # Field(WidgetsOf(dOut.value)[j], "id")
                           /\ ~Intersect(WidgetsOf(dOut.value)[i], WidgetsOf(dOut.value)[j])
    /\ dpc = "defaultCreated" => WidgetsOf(dOut.value) = <<>>
    /\ dpc \in {"sampleValidated", "defaultValidated"} => dOut = Ok(TRUE)

\* the sample dashboard was created and validateDashboardData accepted it
C21_Witness ==
    /\ dpc = "sampleValidated"
    /\ Len(WidgetsOf(dData)) = 4
    /\ Field(Field(dData, "metadata"), "title") = Str("Sample Dashboard")
    /\ dOut = Ok(TRUE)

----------------------------------------------------------------------------
(* Claim C22 *)

\* the strict path accepts the text: deserializeDashboard returns a document
\* and validateDashboardData finds every widget inside the grid and no two
\* overlapping
StrictlyAccepted(text) ==
    /\ parses(text)
    /\ deserializeDashboard(text, Now).ok
    /\ validateDashboardData(deserializeDashboard(text, Now).value) = Ok(TRUE)

\* the content the artifact had before any part was handled
GivenContent ==
    IF dOut.document = Undefined THEN emptyContent ELSE dOut.document.content

\* C22: in every state of the stream handling, the artifact's content, once
\* the handling has set it, and the draft that onCreateDocument or
\* onUpdateDocument returns to be saved, when there is one, are documents
\* that deserializeDashboard and the bounds and overlap validation accept.
C22_AcceptedContentValidated ==
    /\ dText # GivenContent => StrictlyAccepted(dText)
    /\ (dpc = "returned" /\ dOut.draftContent # emptyContent) =>
           StrictlyAccepted(dOut.draftContent)

----------------------------------------------------------------------------
(* Claim C23 *)

\* the ids of the widgets of a document are pairwise distinct
DistinctIds(data) ==
    \A i, j \in DOMAIN WidgetsOf(data) :
        i # j => Field(WidgetsOf(data)[i], "id") # Field(WidgetsOf(data)[j], "id")

\* C23: whenever validateDashboardData returns true, or deserializeDashboard
\* returns a document, the ids of the widgets of that dashboard are pairwise
\* distinct.
C23_AcceptedIdsUnique ==
    /\ (dpc = "validated" /\ dOut = Ok(TRUE)) => DistinctIds(dData)
    /\ (dpc = "deserialized" /\ dOut.ok) => DistinctIds(dOut.value)

----------------------------------------------------------------------------
(* Claims about what a migration does to a valid dashboard *)

\* a dashboard of the migration driver as the value validateDashboardData reads
DashboardAsValue(dashboard) ==
    Obj([version |-> Str(dashboard.version),
         layout |-> docLayout(Num(dashboard.layout.columns), Num(dashboard.layout.rows),
                              docCell(Num(dashboard.layout.cellSize.width),
                                      Num(dashboard.layout.cellSize.height))),
         widgets |-> Arr([i \in DOMAIN dashboard.widgets |->
                            Obj([id |-> Str(dashboard.widgets[i].id),
                                 type |-> Str(dashboard.widgets[i].type),
                                 position |->
                                     Obj([column |-> Num(dashboard.widgets[i].position.column),
                                          row |-> Num(dashboard.widgets[i].position.row)]),
                                 size |->
                                     Obj([width |-> Num(dashboard.widgets[i].size.width),
                                          height |-> Num(dashboard.widgets[i].size.height)])])]),
         metadata |-> Obj([theme |-> Str(dashboard.metadata.theme)])])

\* validateDashboardData accepts the dashboard
Accepted(dashboard) == validateDashboardData(DashboardAsValue(dashboard)) = Ok(TRUE)

\* the layout is in range and no larger than current on either axis, and
\* smaller on one
SmallerInRange(layout, current) ==
    /\ layout = ClampedLayout(layout)
    /\ layout.columns <= current.columns
    /\ layout.rows <= current.rows
    /\ layout.columns < current.columns \/ layout.rows < current.rows

\* a and b both start right of the last column of layout, are no wider than
\* it, and share a row that layout keeps
PushedTogether(a, b, layout) ==
    /\ a.position.column >= layout.columns
    /\ b.position.column >= layout.columns
    /\ a.size.width <= layout.columns
    /\ b.size.width <= layout.columns
    /\ a.position.row + a.size.height <= layout.rows
    /\ b.position.row + b.size.height <= layout.rows
    /\ IntervalsIntersect(a.position.row, a.size.height, b.position.row, b.size.height)

\* C24: updateDashboardLayout does not preserve non-overlap. On a dashboard
\* that validateDashboardData accepts and a smaller layout in range, the call
\* reports no error, and two widgets that both start right of the new last
\* column in a common row come back with distinct ids and intersecting
\* footprints.
C24_ShrinkCanOverlap ==
    (/\ pc = "returned"
     /\ snapshot.request.name = "updateDashboardLayout"
     /\ Accepted(snapshot.before)
     /\ SmallerInRange(snapshot.request.newLayout, snapshot.before.layout)) =>
        /\ ret.ok
        /\ \A i, j \in DOMAIN snapshot.before.widgets :
               (/\ i < j
                /\ PushedTogether(snapshot.before.widgets[i], snapshot.before.widgets[j],
                                  snapshot.request.newLayout)) =>
                   /\ ReturnedWidgets[i].id # ReturnedWidgets[j].id
                   /\ FootprintsIntersect(ReturnedWidgets[i], ReturnedWidgets[j])

\* widgets at columns 2 and 3 of row 0 of an accepted 4x4 dashboard were
\* migrated to 2 columns and 2 rows and now both cover column 1 of row 0
C24_Witness ==
    /\ pc = "returned"
    /\ snapshot.request.name = "updateDashboardLayout"
    /\ Accepted(snapshot.before)
    /\ snapshot.before.layout.columns = 4
    /\ snapshot.request.newLayout = [defaultLayout EXCEPT !.columns = 2, !.rows = 2]
    /\ Len(snapshot.before.widgets) = 2
    /\ ~FootprintsIntersect(snapshot.before.widgets[1], snapshot.before.widgets[2])
    /\ PushedTogether(snapshot.before.widgets[1], snapshot.before.widgets[2],
                      snapshot.request.newLayout)
    /\ ret.ok
    /\ ReturnedWidgets[1].id # ReturnedWidgets[2].id
    /\ FootprintsIntersect(ReturnedWidgets[1], ReturnedWidgets[2])
    /\ ReturnedWidgets[1].position = [column |-> 1, row |-> 0]
    /\ ReturnedWidgets[2].position = [column |-> 1, row |-> 0]

\* C25: for every input dashboard whose widgets have position >= 0 and size
\* >= 1 and every proposed layout, every widget returned by
\* updateDashboardLayout has its whole footprint inside the returned layout
\* and width and height in [1,6]: isValidWidgetPlacement holds of it.
C25_ReturnedWidgetsInside ==
    (/\ pc = "returned"
     /\ snapshot.request.name = "updateDashboardLayout"
     /\ \A i \in DOMAIN snapshot.before.widgets :
            /\ snapshot.before.widgets[i].position.column >= 0
            /\ snapshot.before.widgets[i].position.row >= 0
            /\ snapshot.before.widgets[i].size.width >= 1
            /\ snapshot.before.widgets[i].size.height >= 1) =>
        \A i \in DOMAIN ReturnedWidgets :
            /\ isValidWidgetPlacement(ReturnedWidgets[i], ret.value.layout)
            /\ ReturnedWidgets[i].position.column + ReturnedWidgets[i].size.width
                   <= ret.value.layout.columns
            /\ ReturnedWidgets[i].position.row + ReturnedWidgets[i].size.height
                   <= ret.value.layout.rows
            /\ ReturnedWidgets[i].size.width \in 1..6
            /\ ReturnedWidgets[i].size.height \in 1..6

\* two widgets of width 7, at columns 5 and 0, were migrated to a grid of 12
\* columns and came back inside it with width 6
C25_Witness ==
    /\ pc = "returned"
    /\ snapshot.request.name = "updateDashboardLayout"
    /\ Len(snapshot.before.widgets) = 2
    /\ snapshot.before.widgets[1].position.column = 5
    /\ snapshot.before.widgets[1].size.width = 7
    /\ snapshot.before.widgets[2].position.column = 0
    /\ snapshot.before.widgets[2].size.width = 7
    /\ ret.value.layout.columns = 12
    /\ ReturnedWidgets[1].size.width = 6
    /\ ReturnedWidgets[2].size.width = 6
    /\ \A i \in 1..2 : isValidWidgetPlacement(ReturnedWidgets[i], ret.value.layout)

----------------------------------------------------------------------------
(* Claim C26 *)

\* the dashboard the caller holds: the returned one after a call
HeldDashboard == deref(IF pc = "returned" THEN ret.value ELSE doc, positions, sizes)

\* C26: starting from a dashboard with layout in range, every widget inside
\* the grid and sizes in [1,6], after any finite sequence of resizeGrid
\* calls columns and rows are in [1,12], the cell size is the original one,
\* the number of widgets is the same and every footprint is inside the
\* current grid.
C26_ResizeSequenceValid ==
    /\ HeldDashboard.layout.columns \in 1..12
    /\ HeldDashboard.layout.rows \in 1..12
    /\ HeldDashboard.layout.cellSize = snapshot.start.layout.cellSize
    /\ Len(HeldDashboard.widgets) = Len(snapshot.start.widgets)
    /\ \A i \in DOMAIN HeldDashboard.widgets :
           /\ isValidWidgetPlacement(HeldDashboard.widgets[i], HeldDashboard.layout)
           /\ HeldDashboard.widgets[i].size.width \in 1..6
           /\ HeldDashboard.widgets[i].size.height \in 1..6

\* four rows were removed from a grid of 1 column and 12 rows under a
\* widget in its last row, which followed the shrinking grid
C26_Witness ==
    /\ pc = "returned"
    /\ clock = 4
    /\ snapshot.start.layout.rows = 12
    /\ Len(snapshot.start.widgets) = 2
    /\ snapshot.start.widgets[1].position.row = 11
    /\ HeldDashboard.layout.rows = 8
    /\ HeldDashboard.widgets[1].position.row = 7
    /\ isValidWidgetPlacement(HeldDashboard.widgets[1], HeldDashboard.layout)

----------------------------------------------------------------------------
(* Claim C27 *)

\* the heaps as they were before the call: widget i of the caller's
\* dashboard holds position i and size i
PositionsBefore == [i \in DOMAIN snapshot.before.widgets |-> snapshot.before.widgets[i].position]

SizesBefore == [i \in DOMAIN snapshot.before.widgets |-> snapshot.before.widgets[i].size]

\* what getAffectedWidgets said of the caller's dashboard and the proposal
PreviewBefore ==
    getAffectedWidgets(doc.widgets, snapshot.before.layout, snapshot.request.newLayout,
                       PositionsBefore, SizesBefore)

\* C27: updateDashboardLayout never drops, adds or reorders widgets: the
\* result has as many widgets as the input and, index by index, the same id,
\* type, content and config; every widget that getAffectedWidgets puts in
\* removed for the same proposal is still present and placed inside the
\* returned grid.
C27_WidgetsKept ==
    (pc = "returned" /\ snapshot.request.name = "updateDashboardLayout") =>
        /\ Len(ReturnedWidgets) = Len(snapshot.before.widgets)
        /\ \A i \in DOMAIN snapshot.before.widgets :
               /\ ReturnedWidgets[i].id = snapshot.before.widgets[i].id
               /\ ReturnedWidgets[i].type = snapshot.before.widgets[i].type
               /\ ReturnedWidgets[i].content = snapshot.before.widgets[i].content
               /\ ReturnedWidgets[i].config = snapshot.before.widgets[i].config
        /\ \A k \in DOMAIN PreviewBefore.removed :
               \E i \in DOMAIN ReturnedWidgets :
                   /\ ReturnedWidgets[i].id = PreviewBefore.removed[k].id
                   /\ doc.widgets[i] = PreviewBefore.removed[k]
                   /\ isValidWidgetPlacement(ReturnedWidgets[i], ret.value.layout)

\* of two widgets the second was classified as removed for a proposal of 2
\* columns and 2 rows and came back at index 2, inside the grid
C27_Witness ==
    /\ pc = "returned"
    /\ snapshot.request.name = "updateDashboardLayout"
    /\ snapshot.request.newLayout.columns = 2
    /\ snapshot.request.newLayout.rows = 2
    /\ Len(snapshot.before.widgets) = 2
    /\ snapshot.before.widgets[1].position = [column |-> 0, row |-> 0]
    /\ snapshot.before.widgets[2].position = [column |-> 3, row |-> 3]
    /\ Len(PreviewBefore.removed) = 1
    /\ PreviewBefore.removed[1].id = "w2"
    /\ ReturnedWidgets[2].id = "w2"
    /\ ReturnedWidgets[2].content = [text |-> "w2"]
    /\ ReturnedWidgets[2].position.column < 2
    /\ ReturnedWidgets[2].position.row < 2

----------------------------------------------------------------------------
(* Claim C28 *)

\* C28: the preview agrees with the migration. For every widget list with
\* sizes in [1,6] and every proposed layout, also one with columns or rows
\* above 12, each widget that getAffectedWidgets puts in unaffected has the
\* same position and size in the result of updateDashboardLayout for the
\* same proposal as in the input.
C28_UnaffectedUnchanged ==
    pc = "applied" =>
        \A i \in DOMAIN doc.widgets :
            (\E k \in DOMAIN snapshot.preview.unaffected :
                 snapshot.preview.unaffected[k] = doc.widgets[i]) =>
                /\ ReturnedWidgets[i].position = snapshot.before.widgets[i].position
                /\ ReturnedWidgets[i].size = snapshot.before.widgets[i].size

----------------------------------------------------------------------------
(* Claim C29 *)

\* the ids that the elements of a parsed array carry are pairwise distinct
PresentIdsDistinct(parsed) ==
    \A i, j \in DOMAIN parsed.a :
        (/\ i # j
         /\ IsRecord(parsed.a[i])
         /\ IsRecord(parsed.a[j])
         /\ "id" \in DOMAIN parsed.a[i].o
         /\ "id" \in DOMAIN parsed.a[j].o) =>
            parsed.a[i].o.id # parsed.a[j].o.id

\* C29: whenever the ids present in the input array are pairwise distinct,
\* the widgets that deserializeWidgets returns have pairwise distinct ids: an
\* id made up as widget-<index> never equals the id of another element.
C29_SynthesizedIdsDistinct ==
    (/\ dpc = "widgetsRead"
     /\ dOut.ok
     /\ PresentIdsDistinct(parse(dText))) =>
        \A i, j \in DOMAIN dOut.value.a :
            i # j => Field(dOut.value.a[i], "id") # Field(dOut.value.a[j], "id")

----------------------------------------------------------------------------
(* Editable grid: src/components/dashboard-grid.tsx, lines 58-384, and the *)
(* handlers it reports to, src/artifacts/dashboard/artifact.tsx, lines     *)
(* 435-538. dText is the content the artifact was rendered with, dData the *)
(* artifact metadata, dOut the view: whether it is editable, the time, the *)
(* last intent, the text handed to onSaveContent and not yet the content,  *)
(* and the number of events; dpc is the last event.                        *)

\* widgets.find(widget => the cell is inside the widget's footprint), from
\* index i on; Undefined when there is none
RECURSIVE occupyingWidgetFrom(_, _, _, _)
occupyingWidgetFrom(widgets, i, col, row) ==
    IF i > Len(widgets)
    THEN Undefined
    ELSE LET widget == widgetNumbers(widgets[i])
             widgetEndCol == widget.position.column + widget.size.width
             widgetEndRow == widget.position.row + widget.size.height
         IN  IF /\ col >= widget.position.column
                /\ col < widgetEndCol
                /\ row >= widget.position.row
                /\ row < widgetEndRow
             THEN widgets[i]
             ELSE occupyingWidgetFrom(widgets, i + 1, col, row)

\* the props of the DashboardCell that gridCells renders for a cell
gridCell(widgets, col, row, isEditable) ==
    LET occupyingWidget == occupyingWidgetFrom(widgets, 1, col, row)
        isTopLeft == \/ ~truthy(occupyingWidget)
                     \/ /\ P(P(occupyingWidget, "position"), "column") = Num(col)
                        /\ P(P(occupyingWidget, "position"), "row") = Num(row)
    IN  [position |-> Obj([column |-> Num(col), row |-> Num(row)]),
         isOccupied |-> IF isTopLeft THEN truthy(occupyingWidget) ELSE FALSE,
         onClick |-> isEditable]

\* the widget the onClick of a cell hands to onWidgetAdd; now is Date.now()
newWidgetAt(pos, now) ==
    Obj([id |-> Str("widget-" \o ToString(now)),
         type |-> Str("text"),
         position |-> pos,
         size |-> Obj([width |-> Num(1), height |-> Num(1)]),
         content |-> Obj([text |-> Str("New Widget")]),
         config |-> Obj(<<>>)])

\* DashboardCell.handleClick: the intent the click emits, if any
handleClick(cell, now) ==
    IF cell.onClick /\ ~cell.isOccupied
    THEN Ok(newWidgetAt(cell.position, now))
    ELSE None

\* layout and widgets as the content callback of the artifact reads them
shownDashboard(content, metadata) ==
    LET dashboardData == IF content # emptyContent /\ parses(content)
                         THEN parse(content)
                         ELSE Null
    IN  [layout |-> OrElse(OptP(dashboardData, "layout"), metadata.layout),
         widgets |-> OrElse(OptP(dashboardData, "widgets"), metadata.widgets)]

\* the document a handler of the content callback hands to onSaveContent
updatedData(layout, widgets, metadata, now) ==
    Obj([version |-> Str("1.0"),
         layout |-> layout,
         widgets |-> widgets,
         metadata |-> Obj([createdAt |-> Str(now),
                           lastModified |-> Str(now),
                           theme |-> metadata.theme])])

\* handleLayoutChange: the content to save and the metadata set
handleLayoutChange(newLayout, content, metadata, now) ==
    LET shown == shownDashboard(content, metadata)
    IN  [content |-> stringify(updatedData(newLayout, shown.widgets, metadata, now)),
         metadata |-> [metadata EXCEPT !.layout = newLayout,
                                       !.lastModified = Str(now)]]

\* widgets.map(widget => widget.id === updatedWidget.id ? updatedWidget : widget)
replacedWidgets(widgets, updatedWidget) ==
    [i \in DOMAIN widgets |->
        IF P(widgets[i], "id") = P(updatedWidget, "id")
        THEN updatedWidget
        ELSE widgets[i]]

\* handleWidgetUpdate: the content to save and the metadata set
handleWidgetUpdate(updatedWidget, content, metadata, now) ==
    LET shown == shownDashboard(content, metadata)
        widgetsWithUpdate == Arr(replacedWidgets(shown.widgets.a, updatedWidget))
    IN  [content |-> stringify(updatedData(shown.layout, widgetsWithUpdate, metadata,
                                           now)),
         metadata |-> [metadata EXCEPT !.widgets = widgetsWithUpdate,
                                       !.lastModified = Str(now)]]

\* handleWidgetAdd: the content to save and the metadata set
handleWidgetAdd(newWidget, content, metadata, now) ==
    LET shown == shownDashboard(content, metadata)
        widgetsWithNew == Arr(Append(shown.widgets.a, newWidget))
    IN  [content |-> stringify(updatedData(shown.layout, widgetsWithNew, metadata, now)),
         metadata |-> [metadata EXCEPT !.widgets = widgetsWithNew,
                                       !.lastModified = Str(now)]]

\* handleWidgetRemove: the content to save and the metadata set
handleWidgetRemove(widgetId, content, metadata, now) ==
    LET shown == shownDashboard(content, metadata)
        widgetsLeft == Arr(remainingWidgets(shown.widgets.a, 1, widgetId, <<>>))
    IN  [content |-> stringify(updatedData(shown.layout, widgetsLeft, metadata, now)),
         metadata |-> [metadata EXCEPT !.widgets = widgetsLeft,
                                       !.lastModified = Str(now)]]

\* the layout a button of the grid controls hands to onLayoutChange
GridButtons == {"+ Column", "+ Row", "- Column", "- Row"}

buttonLayout(layout, button) ==
    LET columns == P(layout, "columns").n
        rows == P(layout, "rows").n
    IN  CASE button = "+ Column" ->
                 spread(layout, Obj([columns |-> Num(Min(columns + 1, 12))]))
          [] button = "+ Row" ->
                 spread(layout, Obj([rows |-> Num(Min(rows + 1, 12))]))
          [] button = "- Column" ->
                 spread(layout, Obj([columns |-> Num(Max(columns - 1, 1))]))
          [] button = "- Row" ->
                 spread(layout, Obj([rows |-> Num(Max(rows - 1, 1))]))

MaxGridWidgets == 3

MaxGridClock == 1

MaxGridEvents == 3

\* widgets of one cell, and one that covers two cells of a row
GridWidgets ==
    {docWidget(Str("a"), 0, 0, 1, 1), docWidget(Str("a"), 0, 0, 2, 1),
     docWidget(Str("b"), 1, 1, 1, 1), docWidget(Str("b"), 2, 0, 1, 2)}

GridLayouts ==
    {docLayout(Num(n), Num(2), docCell(Num(DefaultCellWidth), Num(DefaultCellHeight))) :
        n \in 2..3}

\* a dashboard that validateDashboardData accepts and whose ids are distinct
\* is shown, editable or not
GridInit ==
    /\ dpc = "shown"
    /\ \E layout \in GridLayouts, m \in 0..2 : \E ws \in [1..m -> GridWidgets] :
          LET dashboard == dashboardValue(Str("1.0"), layout, Arr(ws), fullMetadata)
          IN  /\ validateDashboardData(dashboard) = Ok(TRUE)
              /\ \A i, j \in 1..m : i # j => P(ws[i], "id") # P(ws[j], "id")
              /\ dText = stringify(dashboard)
              /\ dData = [layout |-> layout, widgets |-> Arr(ws), theme |-> Str("dark"),
                          lastModified |-> Str(Now)]
    /\ \E isEditable \in BOOLEAN :
          dOut = [isEditable |-> isEditable, now |-> 0, intent |-> None,
                  before |-> Arr(<<>>), saving |-> None, events |-> 0]
    /\ CodecIdle
    /\ LayoutIdle

\* setMetadata with the handler's metadata, and onSaveContent(text, true):
\* the text becomes the content later, a text still waiting is dropped
SetAndSave(saved) ==
    /\ dData' = saved.metadata
    /\ dOut' = [dOut EXCEPT !.saving = Ok(saved.content), !.events = @ + 1]

\* a click on the cell rendered at a position of the grid, at a time that
\* is the time of the last click or later
ClickCell ==
    /\ dOut.events < MaxGridEvents
    /\ LET shown == shownDashboard(dText, dData)
       IN  /\ Len(shown.widgets.a) < MaxGridWidgets
           /\ \E col \in 0..(P(shown.layout, "columns").n - 1),
                 row \in 0..(P(shown.layout, "rows").n - 1),
                 now \in dOut.now..MaxGridClock :
                 LET cell == gridCell(shown.widgets.a, col, row, dOut.isEditable)
                     intent == handleClick(cell, now)
                     saved == handleWidgetAdd(intent.value, dText, dData, Now)
                 IN  /\ dOut' = [dOut EXCEPT
                                    !.now = now, !.intent = intent,
                                    !.before = shown.widgets,
                                    !.saving = IF intent.ok THEN Ok(saved.content) ELSE @,
                                    !.events = @ + 1]
                     /\ dData' = IF intent.ok THEN saved.metadata ELSE dData
    /\ dpc' = "clicked"
    /\ UNCHANGED <<dText, codecVars, layoutVars>>

\* a click on one of the four buttons that an editable grid shows
ClickLayoutButton ==
    /\ dOut.events < MaxGridEvents
    /\ dOut.isEditable
    /\ \E button \in GridButtons :
          SetAndSave(handleLayoutChange(
                         buttonLayout(shownDashboard(dText, dData).layout, button),
                         dText, dData, Now))
    /\ dpc' = "layoutChanged"
    /\ UNCHANGED <<dText, codecVars, layoutVars>>

\* a click on the remove button that an editable grid shows on a widget:
\* WidgetContainer.handleRemove
ClickRemove ==
    /\ dOut.events < MaxGridEvents
    /\ dOut.isEditable
    /\ LET shown == shownDashboard(dText, dData)
       IN  \E i \in DOMAIN shown.widgets.a :
              SetAndSave(handleWidgetRemove(P(shown.widgets.a[i], "id"), dText, dData,
                                            Now))
    /\ dpc' = "removed"
    /\ UNCHANGED <<dText, codecVars, layoutVars>>

\* WidgetContainer.handleUpdate(updates) of a widget shown: onUpdate gets
\* { ...widget, ...updates }; the markup binds no element to it
ContainerUpdate ==
    /\ dOut.events < MaxGridEvents
    /\ LET shown == shownDashboard(dText, dData)
       IN  \E i \in DOMAIN shown.widgets.a, column \in {0, 1} :
              SetAndSave(handleWidgetUpdate(
                             spread(shown.widgets.a[i],
                                    Obj([position |-> Obj([column |-> Num(column),
                                                           row |-> Num(0)])])),
                             dText, dData, Now))
    /\ dpc' = "updated"
    /\ UNCHANGED <<dText, codecVars, layoutVars>>

\* the text handed to onSaveContent becomes the content of the artifact
ContentSaved ==
    /\ dOut.saving.ok
    /\ dText' = dOut.saving.value
    /\ dOut' = [dOut EXCEPT !.saving = None]
    /\ dpc' = "saved"
    /\ UNCHANGED <<dData, codecVars, layoutVars>>

GridNext ==
    \/ ClickCell
    \/ ClickLayoutButton
    \/ ClickRemove
    \/ ContainerUpdate
    \/ ContentSaved

SpecGrid == GridInit /\ [][GridNext]_vars

\* no two widgets of the list intersect
NoneIntersect(widgets) ==
    \A i, j \in DOMAIN widgets : i < j => ~Intersect(widgets[i], widgets[j])

\* C30: in the editable grid a click emits a widget-add intent only for a
\* cell that no existing widget covers: the new 1x1 widget intersects no
\* widget that was shown, so when the widgets shown had no overlapping pair
\* the widgets that the click sets have none.
C30_ClickAddsOnFreeCell ==
    /\ dOut.intent.ok =>
           \A i \in DOMAIN dOut.before.a : ~Intersect(dOut.intent.value, dOut.before.a[i])
    /\ (dpc = "clicked" /\ dOut.intent.ok /\ NoneIntersect(dOut.before.a)) =>
           NoneIntersect(dData.widgets.a)

====
